---- MODULE Spec2Model ----
(***************************************************************************)
(* Verification model of the DOLFIN mesh kernel: boundary extraction       *)
(* (BoundaryComputation.cpp), the triangle geometry kernels                *)
(* (TriangleCell.cpp) and the closest-entity / intersection queries        *)
(* declared in Mesh.h and exercised by the IntersectionOperator unit test. *)
(*                                                                         *)
(* Arrays of the program are modelled as sequences; the program's 0-based  *)
(* index i is position i+1 of the sequence.  Entity indices stored in the  *)
(* tables keep their 0-based program values.  Coordinates are integers     *)
(* (the meshes are scaled so that every coordinate the model needs is an   *)
(* integer); quotients are exact fractions <<numerator, denominator>>.     *)
(***************************************************************************)
EXTENDS Integers, Sequences, FiniteSets, TLC

VARIABLES
  mesh,       \* boundary spec: the parent mesh (geometry and topology tables)
  shared,     \* boundary spec: facets (vertex sets) also attached to a cell of another process
  btype,      \* boundary spec: the type argument of the last compute_boundary call
  boundary,   \* boundary spec: the BoundaryMesh produced by the last call
  error,      \* TRUE when the last operation raised dolfin_error
  reorder_call, \* reorder spec: arguments and result of one call of reorder
  tri_call,   \* triangle kernel spec: arguments and result of one kernel call
  query,      \* closest-cell and intersection specs: the last query on the mesh and its result
  topo_call,  \* topology spec: the last topology operation and the tables as first computed
  index,      \* spatial index spec: the index of the mesh and the threads querying it
  csg,        \* CSG generator spec: the generator object and the mesh handed to it
  editor,     \* editor spec: the MeshEditor, the producer driving it and its position
  sax         \* XML reader spec: the state of XMLLocalMeshSAX, the open elements and the mesh data

vars == <<mesh, shared, btype, boundary, error, reorder_call, tri_call, query, topo_call, index, csg, editor, sax>>

\* The variables a specification does not use keep this value.
Idle == "idle"

boundaryOthers == <<reorder_call, tri_call, query, topo_call, index, csg, editor, sax>>

reorderOthers == <<mesh, shared, btype, boundary, error, tri_call, query, topo_call, index, csg, editor, sax>>

triangleOthers == <<mesh, shared, btype, boundary, error, reorder_call, query, topo_call, index, csg, editor, sax>>

closestOthers == <<shared, btype, boundary, error, reorder_call, tri_call, topo_call, index, csg, editor, sax>>

-----------------------------------------------------------------------------
(* Generic helpers *)

Range(s) == {s[i] : i \in DOMAIN s}

At(s, i) == s[i + 1]

Abs(x) == IF x < 0 THEN -x ELSE x

Min2(x, y) == IF x <= y THEN x ELSE y

RECURSIVE GCD(_, _)
GCD(x, y) == IF y = 0 THEN x ELSE GCD(y, x % y)

-----------------------------------------------------------------------------
(* Point: three coordinates, z = 0 for a point of R^2 *)

Sub(p, q) == <<p[1] - q[1], p[2] - q[2], p[3] - q[3]>>

Add(p, q) == <<p[1] + q[1], p[2] + q[2], p[3] + q[3]>>

Scale(k, p) == <<k * p[1], k * p[2], k * p[3]>>

Dot(p, q) == p[1] * q[1] + p[2] * q[2] + p[3] * q[3]

Cross(p, q) ==
  <<p[2] * q[3] - p[3] * q[2], p[3] * q[1] - p[1] * q[3], p[1] * q[2] - p[2] * q[1]>>

-----------------------------------------------------------------------------
(* Exact quotients.  A double that is the quotient n / d of two integers is *)
(* the pair <<n, d>> in lowest terms with d > 0; 0 / 0 is NaN.              *)

NaN == <<0, 0>>

Frac(n, d) ==
  IF d = 0 THEN NaN
  ELSE LET g == GCD(Abs(n), Abs(d))
       IN  IF d > 0 THEN <<n \div g, d \div g>> ELSE <<(-n) \div g, (-d) \div g>>

FracLess(x, y) == x # NaN /\ y # NaN /\ x[1] * y[2] < y[1] * x[2]

FracLeq(x, y) == x # NaN /\ y # NaN /\ x[1] * y[2] <= y[1] * x[2]

FracMin(x, y) == IF FracLeq(x, y) THEN x ELSE y

\* Faulty variant of SquaredDistanceToAffine: the quotient is den / num.
SquaredDistanceToAffineInverse(point, base, num, den, dir) ==
  LET w == Sub(Scale(num, Sub(point, base)), Scale(den, dir))
  IN  Frac(Dot(w, w), num * num)

\* Point::squared_distance(q) for the point q = base + (num / den) * dir.
SquaredDistanceToAffine(point, base, num, den, dir) ==
  LET w == Sub(Scale(den, Sub(point, base)), Scale(num, dir))
  IN  Frac(Dot(w, w), den * den)

-----------------------------------------------------------------------------
(* TriangleCell geometry kernels *)

\* TriangleCell::squared_distance(point, a, b, c)
squared_distance(point, a, b, c) ==
  LET ab == Sub(b, a)
      ac == Sub(c, a)
      ap == Sub(point, a)
      d1 == Dot(ab, ap)
      d2 == Dot(ac, ap)
      bp == Sub(point, b)
      d3 == Dot(ab, bp)
      d4 == Dot(ac, bp)
      vc == d1 * d4 - d3 * d2
      cp == Sub(point, c)
      d5 == Dot(ab, cp)
      d6 == Dot(ac, cp)
      vb == d5 * d2 - d1 * d6
      va == d3 * d6 - d5 * d4
  IN  IF d1 <= 0 /\ d2 <= 0
        THEN SquaredDistanceToAffine(point, a, 0, 1, ab)
      ELSE IF d3 >= 0 /\ d4 <= d3
        THEN SquaredDistanceToAffine(point, b, 0, 1, ab)
      ELSE IF vc <= 0 /\ d1 >= 0 /\ d3 <= 0
        THEN SquaredDistanceToAffine(point, a, d1, d1 - d3, ab)
      ELSE IF d6 >= 0 /\ d5 <= d6
        THEN SquaredDistanceToAffine(point, c, 0, 1, ab)
      ELSE IF vb <= 0 /\ d2 >= 0 /\ d6 <= 0
        THEN SquaredDistanceToAffine(point, a, d2, d2 - d6, ac)
      ELSE IF va <= 0 /\ (d4 - d3) >= 0 /\ (d5 - d6) >= 0
        THEN SquaredDistanceToAffine(point, b, d4 - d3, (d4 - d3) + (d5 - d6), Sub(c, b))
      ELSE <<0, 1>>

\* DOLFIN_EPS, the tolerance of contains.  The coordinates of the model are
\* integers of small magnitude, so a barycentric coordinate is 0 or at least
\* 1 / det in magnitude, far above the tolerance; the model's tolerance is
\* scaled to stay below 1 / det for every triangle of the model.
DOLFIN_EPS == <<1, 100000>>

\* TriangleCell::contains(cell, point) for the cell with vertices p0, p1, p2.
\* When the determinant is 0, inv_det is infinite and x1, x2 are infinite or
\* NaN: no pair of them passes the three comparisons.
contains(p0, p1, p2, point) ==
  LET v1  == Sub(p1, p0)
      v2  == Sub(p2, p0)
      v   == Sub(point, p0)
      a11 == Dot(v1, v1)
      a12 == Dot(v1, v2)
      a22 == Dot(v2, v2)
      b1  == Dot(v, v1)
      b2  == Dot(v, v2)
      det == a11 * a22 - a12 * a12
      x1  == Frac(a22 * b1 - a12 * b2, det)
      x2  == Frac(a11 * b2 - a12 * b1, det)
      eps == DOLFIN_EPS
  IN  IF det = 0 THEN FALSE
      ELSE /\ FracLess(<<-eps[1], eps[2]>>, x1)
           /\ FracLess(<<-eps[1], eps[2]>>, x2)
           /\ FracLess(Frac(x1[1] * x2[2] + x2[1] * x1[2], x1[2] * x2[2]),
                       <<eps[2] + eps[1], eps[2]>>)

-----------------------------------------------------------------------------
(* Mesh topology of a triangle mesh.                                        *)
(* cells       : connectivity (2,0), one vertex triple per cell             *)
(* facets      : connectivity (1,0), <<>> while not computed                *)
(* cell_facets : connectivity (2,1), <<>> while not computed                *)
(* facet_cells : connectivity (1,2), <<>> while not computed                *)

\* Faulty variant of create_entities: edge i starts at vertex i.
create_entities_from_vertex(v) ==
  << <<At(v, 0), At(v, 1)>>, <<At(v, 1), At(v, 2)>>, <<At(v, 0), At(v, 2)>> >>

\* TriangleCell::create_entities(e, 1, v): the three edges of a cell, edge i
\* being the pair of vertices other than v[i].
create_entities(v) ==
  << <<At(v, 1), At(v, 2)>>, <<At(v, 0), At(v, 2)>>, <<At(v, 0), At(v, 1)>> >>

\* Position (1-based) of the entity with the same vertex set, 0 when new.
FindEntity(ents, e) ==
  LET S == {j \in 1..Len(ents) : Range(ents[j]) = Range(e)}
  IN  IF S = {} THEN 0 ELSE CHOOSE j \in S : TRUE

\* One cell of the entity-creation pass: every local entity gets the index
\* of the entity with the same vertices when one exists, else the next index.
RECURSIVE AddCellEntities(_, _, _, _)
AddCellEntities(ents, row, created, i) ==
  IF i > Len(created) THEN [ents |-> ents, row |-> row]
  ELSE LET j == FindEntity(ents, created[i])
       IN  IF j = 0
           THEN AddCellEntities(Append(ents, created[i]), Append(row, Len(ents)), created, i + 1)
           ELSE AddCellEntities(ents, Append(row, j - 1), created, i + 1)

\* Mesh::init(1): entity -> vertex and cell -> entity tables, in one pass
\* over the cells in index order.
RECURSIVE ComputeEntities(_, _, _, _)
ComputeEntities(cells, c, ents, rows) ==
  IF c > Len(cells) THEN [facets |-> ents, cell_facets |-> rows]
  ELSE LET r == AddCellEntities(ents, <<>>, create_entities(cells[c]), 1)
       IN  ComputeEntities(cells, c + 1, r.ents, Append(rows, r.row))

\* The cells incident to facet f in increasing index order.
RECURSIVE IncidentCells(_, _, _)
IncidentCells(rows, f, c) ==
  IF c > Len(rows) THEN <<>>
  ELSE IF f \in Range(rows[c]) THEN <<c - 1>> \o IncidentCells(rows, f, c + 1)
       ELSE IncidentCells(rows, f, c + 1)

\* Connectivity (1,2) as the transpose of (2,1).
Transpose(rows, nf) == [f \in 1..nf |-> IncidentCells(rows, f - 1, 1)]

\* Mesh::init(D - 1, D): computes the facets and the facet - cell
\* connectivity when absent, and is a no-op when they are present.
MeshInitFacetCell(m) ==
  IF m.facet_cells # <<>> THEN m
  ELSE LET t == IF m.facets # <<>>
                THEN [facets |-> m.facets, cell_facets |-> m.cell_facets]
                ELSE ComputeEntities(m.cells, 1, <<>>, <<>>)
       IN  [m EXCEPT !.facets = t.facets,
                     !.cell_facets = t.cell_facets,
                     !.facet_cells = Transpose(t.cell_facets, Len(t.facets))]

\* MeshEntity::num_entities(D) of facet f (0-based).
NumEntities(m, f) == Len(At(m.facet_cells, f))

\* MeshEntity::num_global_entities(D) of facet f: the local count plus the
\* cell of a neighbouring process when the facet is shared.
NumGlobalEntities(m, sh, f) ==
  NumEntities(m, f) + (IF Range(At(m.facets, f)) \in sh THEN 1 ELSE 0)

-----------------------------------------------------------------------------
(* BoundaryComputation::reorder *)

\* Faulty variant of Swap01: the exchange written without the temporary.
Swap01NoTmp(s) ==
  [i \in DOMAIN s |-> IF i = 1 THEN s[2] ELSE IF i = 2 THEN s[2] ELSE s[i]]

\* vertices[0] and vertices[1] exchanged.
Swap01(s) ==
  [i \in DOMAIN s |-> IF i = 1 THEN s[2] ELSE IF i = 2 THEN s[1] ELSE s[i]]

\* The search loop of reorder: the first vertex of the cell that is not a
\* vertex of the facet; the last vertex visited when there is none.
RECURSIVE OppositeVertex(_, _, _)
OppositeVertex(cv, fv, i) ==
  IF At(cv, i) \notin Range(fv) THEN At(cv, i)
  ELSE IF i + 1 < Len(cv) THEN OppositeVertex(cv, fv, i + 1)
       ELSE At(cv, i)

\* Normal of a facet of a triangle mesh from its vertex order: (v.y, -v.x).
TriangleFacetNormal(p0, p1) ==
  LET v == Sub(p1, p0) IN <<v[2], -v[1], 0>>

\* Normal of a facet of a tetrahedron mesh from its vertex order.
TetrahedronFacetNormal(p0, p1, p2) == Cross(Sub(p1, p0), Sub(p2, p0))

\* reorder(vertices, facet): cv are the vertices of the first cell incident
\* to the facet, fv the vertices of the facet in the parent mesh.
reorder(ctype, coords, cv, fv, vertices) ==
  LET p  == At(coords, OppositeVertex(cv, fv, 0))
      p0 == At(coords, At(fv, 0))
      p1 == At(coords, At(fv, 1))
      p2 == At(coords, At(fv, 2))
  IN  CASE ctype = "interval" -> vertices
        [] ctype = "triangle" ->
             IF Dot(TriangleFacetNormal(p0, p1), Sub(p0, p)) < 0
             THEN Swap01(vertices) ELSE vertices
        [] ctype = "tetrahedron" ->
             IF Dot(TetrahedronFacetNormal(p0, p1, p2), Sub(p0, p)) < 0
             THEN Swap01(vertices) ELSE vertices

-----------------------------------------------------------------------------
(* BoundaryComputation::compute_boundary *)

BoundaryTypes == {"exterior", "interior", "local"}

\* Value of a map entry or editor slot that has not been written.
Unset == -1

\* Faulty variant of AssignVertex: the test for an index already given is dropped.
AssignVertexAlways(bv, nbv, vertex_index) ==
  [bv |-> [bv EXCEPT ![vertex_index + 1] = nbv], nbv |-> nbv + 1]

\* Lines 100-102: vertex vertex_index gets the next free boundary index
\* unless it already has one (the initial value num_vertices means none).
AssignVertex(bv, nbv, vertex_index) ==
  IF At(bv, vertex_index) = Len(bv)
  THEN [bv |-> [bv EXCEPT ![vertex_index + 1] = nbv], nbv |-> nbv + 1]
  ELSE [bv |-> bv, nbv |-> nbv]

\* Lines 98-103: the loop over the vertices of a selected facet.
RECURSIVE AssignVertices(_, _, _, _)
AssignVertices(bv, nbv, fv, j) ==
  IF j > Len(fv) THEN [bv |-> bv, nbv |-> nbv]
  ELSE LET a == AssignVertex(bv, nbv, fv[j])
       IN  AssignVertices(a.bv, a.nbv, fv, j + 1)

\* Faulty variant of BoundaryFacet: the global incident-cell count is ignored.
BoundaryFacetLocalOnly(m, sh, exterior, interior, f) ==
  NumEntities(m, f) = 1 /\ (exterior \/ interior)

\* Lines 87-93: is facet f marked as a boundary facet.
BoundaryFacet(m, sh, exterior, interior, f) ==
  IF NumEntities(m, f) = 1
  THEN LET global_exterior_facet == (NumGlobalEntities(m, sh, f) = 1)
       IN  IF global_exterior_facet /\ exterior THEN TRUE
           ELSE IF ~global_exterior_facet /\ interior THEN TRUE
           ELSE FALSE
  ELSE FALSE

\* Lines 84-109: the first loop over the facets.
RECURSIVE MarkFacets(_, _, _, _, _, _)
MarkFacets(m, sh, exterior, interior, f, st) ==
  IF f >= Len(m.facets) THEN st
  ELSE IF BoundaryFacet(m, sh, exterior, interior, f)
       THEN LET a == AssignVertices(st.boundary_vertices, st.num_boundary_vertices,
                                    At(m.facets, f), 1)
            IN  MarkFacets(m, sh, exterior, interior, f + 1,
                  [boundary_vertices     |-> a.bv,
                   num_boundary_vertices |-> a.nbv,
                   num_boundary_cells    |-> st.num_boundary_cells + 1,
                   boundary_facet        |-> [st.boundary_facet EXCEPT ![f + 1] = TRUE]])
       ELSE MarkFacets(m, sh, exterior, interior, f + 1, st)

\* Lines 119-132: the loop over the vertices of the parent mesh.
RECURSIVE CreateVertices(_, _, _, _)
CreateVertices(m, bv, v, out) ==
  IF v >= Len(m.coords) THEN out
  ELSE LET vertex_index == At(bv, v)
       IN  IF vertex_index # Len(m.coords)
           THEN CreateVertices(m, bv, v + 1,
                  [vertex_map  |-> IF out.vertex_map # <<>>
                                   THEN [out.vertex_map EXCEPT ![vertex_index + 1] = v]
                                   ELSE out.vertex_map,
                   vm_writes   |-> IF out.vertex_map # <<>>
                                   THEN [out.vm_writes EXCEPT ![vertex_index + 1] = @ + 1]
                                   ELSE out.vm_writes,
                   coordinates |-> [out.coordinates EXCEPT ![vertex_index + 1] = At(m.coords, v)]])
           ELSE CreateVertices(m, bv, v + 1, out)

\* Lines 140-159: the second loop over the facets.
RECURSIVE CreateCells(_, _, _, _, _)
CreateCells(m, st, f, current_cell, out) ==
  IF f >= Len(m.facets) THEN out
  ELSE IF At(st.boundary_facet, f)
       THEN LET vertices == At(m.facets, f)
                cell0    == [i \in DOMAIN vertices |-> At(st.boundary_vertices, vertices[i])]
                cell     == reorder(m.ctype, m.coords,
                                    At(m.cells, At(At(m.facet_cells, f), 0)), vertices, cell0)
            IN  CreateCells(m, st, f + 1, current_cell + 1,
                  [cell_map  |-> IF out.cell_map # <<>>
                                 THEN [out.cell_map EXCEPT ![current_cell + 1] = f]
                                 ELSE out.cell_map,
                   cm_writes |-> IF out.cell_map # <<>>
                                 THEN [out.cm_writes EXCEPT ![current_cell + 1] = @ + 1]
                                 ELSE out.cm_writes,
                   cells     |-> [out.cells EXCEPT ![current_cell + 1] = cell]])
       ELSE CreateCells(m, st, f + 1, current_cell, out)

\* compute_boundary(mesh, type, boundary) for a known type; m is the mesh
\* after mesh.init(D - 1, D).
compute_boundary(m, sh, type) ==
  LET exterior == (type # "interior")
      interior == (type # "exterior")
      nv  == Len(m.coords)
      st  == MarkFacets(m, sh, exterior, interior, 0,
               [boundary_vertices     |-> [v \in 1..nv |-> nv],
                num_boundary_vertices |-> 0,
                num_boundary_cells    |-> 0,
                boundary_facet        |-> [f \in 1..Len(m.facets) |-> FALSE]])
      nbv == st.num_boundary_vertices
      nbc == st.num_boundary_cells
      vs  == CreateVertices(m, st.boundary_vertices, 0,
               [vertex_map  |-> [k \in 1..nbv |-> Unset],
                vm_writes   |-> [k \in 1..nbv |-> 0],
                coordinates |-> [k \in 1..nbv |-> Unset]])
      cs  == CreateCells(m, st, 0, 0,
               [cell_map  |-> [k \in 1..nbc |-> Unset],
                cm_writes |-> [k \in 1..nbc |-> 0],
                cells     |-> [k \in 1..nbc |-> Unset]])
  IN  [num_vertices |-> nbv,
       num_cells    |-> nbc,
       coordinates  |-> vs.coordinates,
       cells        |-> cs.cells,
       vertex_map   |-> vs.vertex_map,
       vm_writes    |-> vs.vm_writes,
       cell_map     |-> cs.cell_map,
       cm_writes    |-> cs.cm_writes]

-----------------------------------------------------------------------------
(* Input meshes of the boundary specification *)

\* Largest number of facets a mesh shares with neighbouring processes.
MaxShared == 2

P2(x, y) == <<x, y, 0>>

\* Geometry and cell - vertex connectivity of the input meshes: one cell, a
\* square of two cells, a strip of three cells, a square of four cells
\* around an interior vertex, the 2 x 2 unit square of eight cells, and a
\* folded surface of two cells in R^3.
BaseMeshes ==
  << [gdim |-> 2,
      coords |-> <<P2(0,0), P2(2,0), P2(0,2)>>,
      cells  |-> << <<0,1,2>> >>],
     [gdim |-> 2,
      coords |-> <<P2(0,0), P2(2,0), P2(0,2), P2(2,2)>>,
      cells  |-> << <<0,1,3>>, <<0,2,3>> >>],
     [gdim |-> 2,
      coords |-> <<P2(0,0), P2(2,0), P2(0,2), P2(2,2), P2(4,0)>>,
      cells  |-> << <<0,1,2>>, <<1,3,2>>, <<1,4,3>> >>],
     [gdim |-> 2,
      coords |-> <<P2(0,0), P2(4,0), P2(4,4), P2(0,4), P2(2,2)>>,
      cells  |-> << <<0,1,4>>, <<1,2,4>>, <<2,3,4>>, <<3,0,4>> >>],
     [gdim |-> 2,
      coords |-> <<P2(0,0), P2(2,0), P2(4,0), P2(0,2), P2(2,2), P2(4,2),
                   P2(0,4), P2(2,4), P2(4,4)>>,
      cells  |-> << <<0,1,4>>, <<0,3,4>>, <<1,2,5>>, <<1,4,5>>,
                    <<3,4,7>>, <<3,6,7>>, <<4,5,8>>, <<4,7,8>> >>],
     [gdim |-> 3,
      coords |-> << <<0,0,0>>, <<2,0,0>>, <<0,2,0>>, <<1,1,2>> >>,
      cells  |-> << <<0,1,2>>, <<0,1,3>> >>] >>

\* The orders in which a cell may list its three vertices.
Perm3 == { <<1,2,3>>, <<1,3,2>>, <<2,1,3>>, <<2,3,1>>, <<3,1,2>>, <<3,2,1>> }

Permute(cell, pm) == [i \in 1..3 |-> cell[pm[i]]]

\* Base mesh b with the cells of even index listed in order pe, those of odd
\* index in order po; only the cell - vertex connectivity is present.
InputMesh(b, pe, po) ==
  [ctype       |-> "triangle",
   gdim        |-> BaseMeshes[b].gdim,
   coords      |-> BaseMeshes[b].coords,
   cells       |-> [c \in DOMAIN BaseMeshes[b].cells |->
                      Permute(BaseMeshes[b].cells[c], IF c % 2 = 1 THEN pe ELSE po)],
   facets      |-> <<>>,
   cell_facets |-> <<>>,
   facet_cells |-> <<>>]

\* The facets (as vertex sets) attached to exactly one cell of the mesh.
LocalBoundaryKeys(m) ==
  LET t == MeshInitFacetCell(m)
  IN  {Range(At(t.facets, f)) : f \in {g \in 0..(Len(t.facets) - 1) : NumEntities(t, g) = 1}}

NoBoundary == [num_vertices |-> Unset]

InitBoundary ==
  /\ \E b \in DOMAIN BaseMeshes, pe \in Perm3, po \in Perm3 :
       mesh = InputMesh(b, pe, po)
  /\ shared \in {S \in SUBSET LocalBoundaryKeys(mesh) : Cardinality(S) <= MaxShared}
  /\ btype = ""
  /\ boundary = NoBoundary
  /\ error = FALSE
  /\ reorder_call = Idle
  /\ tri_call = Idle
  /\ query = Idle
  /\ topo_call = Idle /\ index = Idle /\ csg = Idle /\ editor = Idle /\ sax = Idle

\* mesh.init(D - 1, D) called by the user before the boundary is extracted.
InitFacetCell ==
  /\ mesh.facet_cells = <<>>
  /\ mesh' = MeshInitFacetCell(mesh)
  /\ error' = FALSE
  /\ UNCHANGED <<shared, btype, boundary>>
  /\ UNCHANGED boundaryOthers

\* BoundaryMesh(mesh, type): compute_boundary on a new boundary mesh.
ComputeBoundary(type) ==
  /\ type \in BoundaryTypes
  /\ mesh' = MeshInitFacetCell(mesh)
  /\ boundary' = compute_boundary(mesh', shared, type)
  /\ btype' = type
  /\ error' = FALSE
  /\ UNCHANGED shared
  /\ UNCHANGED boundaryOthers

\* compute_boundary with an unknown type: dolfin_error before the boundary
\* or the mesh is touched.
ComputeBoundaryUnknown(type) ==
  /\ type \notin BoundaryTypes
  /\ btype' = type
  /\ boundary' = NoBoundary
  /\ error' = TRUE
  /\ UNCHANGED <<mesh, shared>>
  /\ UNCHANGED boundaryOthers

NextBoundary ==
  \/ InitFacetCell
  \/ \E type \in BoundaryTypes : ComputeBoundary(type)
  \/ \E type \in {"global"} : ComputeBoundaryUnknown(type)

SpecBoundary == InitBoundary /\ [][NextBoundary]_vars

-----------------------------------------------------------------------------
(* Claims on boundary extraction, checked under SpecBoundary *)

\* Number of cells of the parent mesh that have all vertices of facet f,
\* counted from the cell - vertex connectivity.
LocalCount(f) ==
  Cardinality({c \in DOMAIN mesh.cells :
                 Range(At(mesh.facets, f)) \subseteq Range(mesh.cells[c])})

GlobalCount(f) ==
  LocalCount(f) + (IF Range(At(mesh.facets, f)) \in shared THEN 1 ELSE 0)

FacetIndices == 0..(Len(mesh.facets) - 1)

\* The facets the mode of the last call selects.
Selected ==
  CASE btype = "exterior" -> {f \in FacetIndices : LocalCount(f) = 1 /\ GlobalCount(f) = 1}
    [] btype = "interior" -> {f \in FacetIndices : LocalCount(f) = 1 /\ GlobalCount(f) # 1}
    [] btype = "local"    -> {f \in FacetIndices : LocalCount(f) = 1}
    [] OTHER              -> {}

BoundaryComputed == boundary # NoBoundary

\* Positions in space of the vertices of boundary cell i (1-based) and of
\* parent facet f (0-based).
BoundaryCellPoints(i) ==
  {At(boundary.coordinates, k) : k \in Range(boundary.cells[i])}

FacetPoints(f) == {At(mesh.coords, v) : v \in Range(At(mesh.facets, f))}

\* C1: after compute_boundary the cells of the boundary mesh are exactly the
\* facets the mode selects (exterior: one local and one global incident
\* cell; interior: one local incident cell and a global count other than 1;
\* local: one local incident cell), one boundary cell per selected facet and
\* none else; in a single-process mesh the mode "interior" gives a boundary
\* with no cell and no vertex.
C1_BoundaryCellsAreSelectedFacets ==
  BoundaryComputed =>
    /\ boundary.num_cells = Cardinality(Selected)
    /\ Len(boundary.cells) = boundary.num_cells
    /\ \A f \in Selected :
         Cardinality({i \in DOMAIN boundary.cells :
                        BoundaryCellPoints(i) = FacetPoints(f)}) = 1
    /\ \A i \in DOMAIN boundary.cells :
         \E f \in Selected : BoundaryCellPoints(i) = FacetPoints(f)
    /\ \A f \in Selected : LocalCount(f) \notin {0, 2}
    /\ (btype = "interior" /\ shared = {}) =>
         (boundary.num_cells = 0 /\ boundary.num_vertices = 0)

\* C1 witness: an "interior" extraction from a mesh with shared facets that
\* selects some but not all of the facets with one local cell, the mesh
\* having facets with two cells as well.
C1_Witness ==
  /\ BoundaryComputed
  /\ btype = "interior"
  /\ boundary.num_cells > 0
  /\ \E f \in FacetIndices : LocalCount(f) = 1 /\ f \notin Selected
  /\ \E f \in FacetIndices : LocalCount(f) = 2

\* The parent vertices incident to a selected facet.
SelectedVertices == UNION {Range(At(mesh.facets, f)) : f \in Selected}

Injective(s) == \A i, j \in DOMAIN s : s[i] = s[j] => i = j

\* C2: with at least one selected facet, the vertex map is defined on
\* exactly 0..nv-1 and the cell map on exactly 0..nc-1, every entry written
\* exactly once; the vertex map is injective onto the parent vertices of the
\* selected facets, the cell map is injective onto the selected facets.
C2_IndexMapsDenseInjective ==
  (BoundaryComputed /\ Selected # {}) =>
    /\ DOMAIN boundary.vertex_map = 1..boundary.num_vertices
    /\ DOMAIN boundary.cell_map = 1..boundary.num_cells
    /\ \A k \in DOMAIN boundary.vertex_map : boundary.vm_writes[k] = 1
    /\ \A k \in DOMAIN boundary.cell_map : boundary.cm_writes[k] = 1
    /\ Injective(boundary.vertex_map)
    /\ Range(boundary.vertex_map) = SelectedVertices
    /\ Injective(boundary.cell_map)
    /\ Range(boundary.cell_map) = Selected

\* C2 witness: a boundary with cells whose vertex map leaves out a vertex of
\* the parent mesh and whose cell map leaves out a facet.
C2_Witness ==
  /\ BoundaryComputed
  /\ boundary.num_cells > 1
  /\ boundary.num_vertices < Len(mesh.coords)
  /\ boundary.num_cells < Len(mesh.facets)
  /\ \E v \in SelectedVertices :
       Cardinality({f \in Selected : v \in Range(At(mesh.facets, f))}) = 2

\* Parent vertices of boundary cell i through the vertex map.
MappedCell(i) ==
  [k \in DOMAIN boundary.cells[i] |-> At(boundary.vertex_map, boundary.cells[i][k])]

\* t is s with its first two entries exchanged.
FirstTwoSwapped(s, t) ==
  /\ DOMAIN t = DOMAIN s
  /\ t[1] = s[2]
  /\ t[2] = s[1]
  /\ \A k \in DOMAIN s : k > 2 => t[k] = s[k]

\* C3: for every boundary cell i and local position k the coordinates of
\* boundary vertex cell_i[k] are the parent coordinates of
\* vertex_map[cell_i[k]], and vertex_map[cell_i[0..]] is the vertex list of
\* parent facet cell_map[i], unchanged or with its first two entries swapped.
C3_BoundaryRoundTrip ==
  BoundaryComputed =>
    \A i \in DOMAIN boundary.cells :
      LET fv == At(mesh.facets, boundary.cell_map[i])
      IN  /\ \A k \in DOMAIN boundary.cells[i] :
               At(boundary.coordinates, boundary.cells[i][k]) =
                 At(mesh.coords, MappedCell(i)[k])
          /\ (MappedCell(i) = fv \/ FirstTwoSwapped(fv, MappedCell(i)))

\* C3 witness: a boundary with one cell kept in the order of its parent
\* facet and one cell with the first two entries swapped.
C3_Witness ==
  /\ BoundaryComputed
  /\ \E i \in DOMAIN boundary.cells :
       MappedCell(i) = At(mesh.facets, boundary.cell_map[i])
  /\ \E i \in DOMAIN boundary.cells :
       /\ MappedCell(i) # At(mesh.facets, boundary.cell_map[i])
       /\ FirstTwoSwapped(At(mesh.facets, boundary.cell_map[i]), MappedCell(i))

-----------------------------------------------------------------------------
(* BoundaryComputation::reorder on one cell of each cell type *)

\* Largest coordinate of a vertex of the cell handed to reorder.
ReorderMax == 1

Lattice(r) == {<<x, y, z>> : x \in 0..r, y \in 0..r, z \in 0..r}

\* Sequences of n distinct entries over S.
InjectiveSeqs(S, n) == {s \in [1..n -> S] : \A i, j \in 1..n : s[i] = s[j] => i = j}

CellTypes == {"interval", "triangle", "tetrahedron"}

\* Topological dimension of a cell type (CellType::dim).
Dim(ctype) ==
  CASE ctype = "interval" -> 1
    [] ctype = "triangle" -> 2
    [] ctype = "tetrahedron" -> 3

\* Boundary index given to parent vertex v in the call of reorder.
BoundaryLabel(v) == 10 + v

\* One cell with its first vertex at the origin, the cell's vertex list in
\* any order, and one facet of it with its vertex list in any order.
InitReorder ==
  /\ \E ctype \in CellTypes :
       \E rest \in [1..Dim(ctype) -> Lattice(ReorderMax)] :
         \E cv \in (IF ctype = "tetrahedron"
                    THEN {<<0, 1, 2, 3>>, <<3, 2, 1, 0>>}
                    ELSE InjectiveSeqs(0..Dim(ctype), Dim(ctype) + 1)) :
           \E fv \in InjectiveSeqs(0..Dim(ctype), Dim(ctype)) :
             reorder_call = [ctype    |-> ctype,
                             coords   |-> <<<<0, 0, 0>>>> \o rest,
                             cell     |-> cv,
                             facet    |-> fv,
                             vertices |-> [k \in 1..Dim(ctype) |-> BoundaryLabel(fv[k])],
                             result   |-> <<>>]
  /\ mesh = Idle /\ shared = Idle /\ btype = Idle /\ boundary = Idle /\ error = Idle
  /\ tri_call = Idle
  /\ query = Idle
  /\ topo_call = Idle /\ index = Idle /\ csg = Idle /\ editor = Idle /\ sax = Idle

\* reorder(vertices, facet)
Reorder ==
  /\ reorder_call.result = <<>>
  /\ reorder_call' =
       [reorder_call EXCEPT !.result =
          reorder(reorder_call.ctype, reorder_call.coords, reorder_call.cell,
                  reorder_call.facet, reorder_call.vertices)]
  /\ UNCHANGED reorderOthers

NextReorder == Reorder

SpecReorder == InitReorder /\ [][NextReorder]_vars

-----------------------------------------------------------------------------
(* Claims on reorder, checked under SpecReorder *)

Reordered == reorder_call.result # <<>>

\* Position of the k-th vertex (1-based) of the reordered facet.
ReorderedPoint(k) == At(reorder_call.coords, reorder_call.result[k] - 10)

\* The vertex of the cell that is not on the facet.
OppositePoint ==
  At(reorder_call.coords,
     CHOOSE v \in Range(reorder_call.cell) : v \notin Range(reorder_call.facet))

\* Normal of the reordered facet from its own vertex order.
ReorderedNormal ==
  IF reorder_call.ctype = "triangle"
  THEN <<ReorderedPoint(2)[2] - ReorderedPoint(1)[2],
         -(ReorderedPoint(2)[1] - ReorderedPoint(1)[1]), 0>>
  ELSE Cross(Sub(ReorderedPoint(2), ReorderedPoint(1)),
             Sub(ReorderedPoint(3), ReorderedPoint(1)))

OutwardMeasure == Dot(ReorderedNormal, Sub(ReorderedPoint(1), OppositePoint))

\* Six times the signed volume of the tetrahedron, twice the area vector of
\* the triangle, twice the signed area of the triangle's xy-projection.
CellDet ==
  LET c == reorder_call.coords
  IN  Dot(Cross(Sub(c[2], c[1]), Sub(c[3], c[1])), Sub(c[4], c[1]))

CellAreaVector ==
  LET c == reorder_call.coords IN Cross(Sub(c[2], c[1]), Sub(c[3], c[1]))

NonDegenerateCell ==
  CASE reorder_call.ctype = "triangle"    -> CellAreaVector # <<0, 0, 0>>
    [] reorder_call.ctype = "tetrahedron" -> CellDet # 0
    [] OTHER                              -> reorder_call.coords[1] # reorder_call.coords[2]

NonDegenerateProjection == CellAreaVector[3] # 0

OnlySwapsFirstTwo ==
  \/ reorder_call.result = reorder_call.vertices
  \/ /\ reorder_call.ctype # "interval"
     /\ FirstTwoSwapped(reorder_call.vertices, reorder_call.result)

\* C4: for every facet of a triangle or tetrahedron with a non-degenerate
\* incident cell the normal of the reordered facet has a positive dot product
\* with (facet vertex - opposite vertex); reorder only ever swaps entries 0
\* and 1 and changes nothing for intervals.
C4_ReorderOutward ==
  Reordered =>
    /\ OnlySwapsFirstTwo
    /\ (reorder_call.ctype # "interval" /\ NonDegenerateCell) => OutwardMeasure > 0

\* The part of C4 that the code meets: the dot product is never negative; it
\* is positive for every non-degenerate tetrahedron and for every triangle
\* whose projection onto the xy-plane is non-degenerate, and it is 0 for a
\* triangle whose xy-projection is degenerate (a triangle of a mesh in R^3
\* lying in a vertical plane).
ReorderNeverInward ==
  Reordered =>
    /\ OnlySwapsFirstTwo
    /\ reorder_call.ctype # "interval" => OutwardMeasure >= 0
    /\ (reorder_call.ctype = "tetrahedron" /\ NonDegenerateCell) => OutwardMeasure > 0
    /\ (reorder_call.ctype = "triangle" /\ NonDegenerateProjection) => OutwardMeasure > 0
    /\ (reorder_call.ctype = "triangle" /\ ~NonDegenerateProjection) => OutwardMeasure = 0

-----------------------------------------------------------------------------
(* The triangle kernels on one triangle and one query point *)

\* Largest x and y coordinate, and largest z coordinate, of a triangle vertex;
\* the query point ranges one unit further in every direction but below z = 0.
TriMax == 2

TriMaxZ == 1

TriVertices == {<<x, y, z>> : x \in 0..TriMax, y \in 0..TriMax, z \in 0..TriMaxZ}

TriPoints ==
  {<<x, y, z>> : x \in (-1)..(TriMax + 1), y \in (-1)..(TriMax + 1), z \in 0..(TriMaxZ + 1)}

Pending == "pending"

\* A triangle with its first vertex at the origin and a query point.
InitTriangle ==
  /\ \E b \in TriVertices, c \in TriVertices, point \in TriPoints :
       tri_call = [a |-> <<0, 0, 0>>, b |-> b, c |-> c, point |-> point,
                   op |-> Pending, result |-> Pending]
  /\ mesh = Idle /\ shared = Idle /\ btype = Idle /\ boundary = Idle /\ error = Idle
  /\ reorder_call = Idle
  /\ query = Idle
  /\ topo_call = Idle /\ index = Idle /\ csg = Idle /\ editor = Idle /\ sax = Idle

\* TriangleCell::squared_distance(point, a, b, c)
SquaredDistance ==
  /\ tri_call.op = Pending
  /\ tri_call' = [tri_call EXCEPT
                    !.op = "squared_distance",
                    !.result = squared_distance(tri_call.point, tri_call.a,
                                                tri_call.b, tri_call.c)]
  /\ UNCHANGED triangleOthers

\* TriangleCell::contains(cell, point)
Contains ==
  /\ tri_call.op = Pending
  /\ tri_call' = [tri_call EXCEPT
                    !.op = "contains",
                    !.result = contains(tri_call.a, tri_call.b, tri_call.c,
                                        tri_call.point)]
  /\ UNCHANGED triangleOthers

NextTriangle ==
  \/ SquaredDistance
  \/ Contains

SpecTriangle == InitTriangle /\ [][NextTriangle]_vars

-----------------------------------------------------------------------------
(* Claims on the triangle kernels, checked under SpecTriangle *)

\* Squared distance from p to the closed segment [u, w].
SegmentSqDist(p, u, w) ==
  LET t == Dot(Sub(p, u), Sub(w, u))
      L == Dot(Sub(w, u), Sub(w, u))
  IN  IF t <= 0 THEN <<Dot(Sub(p, u), Sub(p, u)), 1>>
      ELSE IF t >= L THEN <<Dot(Sub(p, w), Sub(p, w)), 1>>
      ELSE Frac(L * Dot(Sub(p, u), Sub(p, u)) - t * t, L)

\* The orthogonal projection of p onto the plane of abc lies in the closed
\* triangle (n is the normal of the plane).
ProjectsInside(p, a, b, c) ==
  LET n == Cross(Sub(b, a), Sub(c, a))
  IN  /\ Dot(Cross(Sub(b, a), Sub(p, a)), n) >= 0
      /\ Dot(Cross(Sub(c, b), Sub(p, b)), n) >= 0
      /\ Dot(Cross(Sub(a, c), Sub(p, c)), n) >= 0

\* Squared distance from p to the plane of abc.
PlaneSqDist(p, a, b, c) ==
  LET n == Cross(Sub(b, a), Sub(c, a))
      h == Dot(Sub(p, a), n)
  IN  Frac(h * h, Dot(n, n))

\* p lies on or inside the closed triangle abc.
InClosedTriangle(p, a, b, c) ==
  ProjectsInside(p, a, b, c) /\ PlaneSqDist(p, a, b, c) = <<0, 1>>

\* Euclidean squared distance from p to the closed non-degenerate triangle abc.
TrueSquaredDistance(p, a, b, c) ==
  LET e == FracMin(SegmentSqDist(p, a, b),
                   FracMin(SegmentSqDist(p, b, c), SegmentSqDist(p, a, c)))
  IN  IF ProjectsInside(p, a, b, c) THEN FracMin(e, PlaneSqDist(p, a, b, c)) ELSE e

NonDegenerateTriangle ==
  Cross(Sub(tri_call.b, tri_call.a), Sub(tri_call.c, tri_call.a)) # <<0, 0, 0>>

\* The triangle and the query point lie in the plane z = 0 (a mesh in R^2).
PlanarCall ==
  tri_call.a[3] = 0 /\ tri_call.b[3] = 0 /\ tri_call.c[3] = 0 /\ tri_call.point[3] = 0

\* C9: squared_distance(point, a, b, c) is 0 when the point lies on or in
\* the closed triangle and otherwise the Euclidean squared distance from the
\* point to the nearest point of the triangle, for every point and every
\* non-degenerate triangle in R^2 or R^3, points off the triangle's plane
\* included.
C9_SquaredDistanceIsEuclidean ==
  (tri_call.op = "squared_distance" /\ NonDegenerateTriangle) =>
    /\ tri_call.result =
         TrueSquaredDistance(tri_call.point, tri_call.a, tri_call.b, tri_call.c)
    /\ (tri_call.result = <<0, 1>>) <=>
         InClosedTriangle(tri_call.point, tri_call.a, tri_call.b, tri_call.c)

\* The part of C9 that the kernel meets: the same statement for a query
\* point in the plane of the triangle.
SquaredDistanceIsEuclideanInPlane ==
  (/\ tri_call.op = "squared_distance"
   /\ NonDegenerateTriangle
   /\ PlaneSqDist(tri_call.point, tri_call.a, tri_call.b, tri_call.c) = <<0, 1>>) =>
    /\ tri_call.result =
         TrueSquaredDistance(tri_call.point, tri_call.a, tri_call.b, tri_call.c)
    /\ (tri_call.result = <<0, 1>>) <=>
         InClosedTriangle(tri_call.point, tri_call.a, tri_call.b, tri_call.c)

\* Barycentric coordinates (x1, x2) of the point with respect to
\* (a; b - a, c - a), as quotients of triple products.
Barycentric1 ==
  LET n == Cross(Sub(tri_call.b, tri_call.a), Sub(tri_call.c, tri_call.a))
  IN  Frac(Dot(Cross(Sub(tri_call.point, tri_call.a), Sub(tri_call.c, tri_call.a)), n),
           Dot(n, n))

Barycentric2 ==
  LET n == Cross(Sub(tri_call.b, tri_call.a), Sub(tri_call.c, tri_call.a))
  IN  Frac(Dot(Cross(Sub(tri_call.b, tri_call.a), Sub(tri_call.point, tri_call.a)), n),
           Dot(n, n))

\* x1 > -eps, x2 > -eps and x1 + x2 < 1 + eps for the tolerance eps = e[1] / e[2].
WithinTolerance(x1, x2, e) ==
  /\ x1[1] * e[2] > -e[1] * x1[2]
  /\ x2[1] * e[2] > -e[1] * x2[2]
  /\ (x1[1] * x2[2] + x2[1] * x1[2]) * e[2] < (e[2] + e[1]) * x1[2] * x2[2]

TriCorners == {tri_call.a, tri_call.b, tri_call.c}

IsCentroid == Scale(3, tri_call.point) = Add(tri_call.a, Add(tri_call.b, tri_call.c))

OnClosedEdge ==
  \E e \in {<<tri_call.a, tri_call.b>>, <<tri_call.b, tri_call.c>>, <<tri_call.a, tri_call.c>>} :
    SegmentSqDist(tri_call.point, e[1], e[2]) = <<0, 1>>

Max3(x, y, z) == IF x >= y /\ x >= z THEN x ELSE IF y >= z THEN y ELSE z

Min3(x, y, z) == -Max3(-x, -y, -z)

BoxMax(k) == Max3(tri_call.a[k], tri_call.b[k], tri_call.c[k])

BoxMin(k) == Min3(tri_call.a[k], tri_call.b[k], tri_call.c[k])

\* Longest side of the bounding box of the triangle.
BoxExtent == Max3(BoxMax(1) - BoxMin(1), BoxMax(2) - BoxMin(2), BoxMax(3) - BoxMin(3))

\* The point is outside the bounding box of the triangle, along some axis by
\* at least the longest side of the box.
FarOutsideBox ==
  \E k \in 1..3 : \/ tri_call.point[k] - BoxMax(k) >= BoxExtent
                  \/ BoxMin(k) - tri_call.point[k] >= BoxExtent

\* C10: contains(cell, point) accepts the point exactly when its barycentric
\* coordinates satisfy x1 > -eps, x2 > -eps and x1 + x2 < 1 + eps; it is
\* true for the centroid, the three vertices and every point of the closed
\* edges, and false for every point far outside the cell's bounding box.
C10_ContainsBarycentric ==
  (tri_call.op = "contains" /\ NonDegenerateTriangle) =>
    /\ tri_call.result <=> WithinTolerance(Barycentric1, Barycentric2, DOLFIN_EPS)
    /\ IsCentroid => tri_call.result
    /\ tri_call.point \in TriCorners => tri_call.result
    /\ OnClosedEdge => tri_call.result
    /\ FarOutsideBox => ~tri_call.result

\* The part of C10 that the kernel meets: the same statement for a triangle
\* and a query point in the plane z = 0.
ContainsBarycentricPlanar ==
  (tri_call.op = "contains" /\ NonDegenerateTriangle /\ PlanarCall) =>
    /\ tri_call.result <=> WithinTolerance(Barycentric1, Barycentric2, DOLFIN_EPS)
    /\ tri_call.result <=>
         InClosedTriangle(tri_call.point, tri_call.a, tri_call.b, tri_call.c)
    /\ IsCentroid => tri_call.result
    /\ tri_call.point \in TriCorners => tri_call.result
    /\ OnClosedEdge => tri_call.result
    /\ FarOutsideBox => ~tri_call.result

-----------------------------------------------------------------------------
(* Closest-cell and distance queries on a triangle mesh *)

\* TriangleCell::squared_distance(cell, point) for cell c (0-based) of m.
CellSquaredDistance(m, c, point) ==
  LET vertices == At(m.cells, c)
  IN  squared_distance(point, At(m.coords, At(vertices, 0)),
                       At(m.coords, At(vertices, 1)), At(m.coords, At(vertices, 2)))

\* Mesh::closest_cell(point): the cell of smallest squared distance, the
\* lowest index among several.
closest_cell(m, point) ==
  CHOOSE c \in 0..(Len(m.cells) - 1) :
    \A e \in 0..(Len(m.cells) - 1) :
      \/ FracLess(CellSquaredDistance(m, c, point), CellSquaredDistance(m, e, point))
      \/ (CellSquaredDistance(m, c, point) = CellSquaredDistance(m, e, point) /\ c <= e)

\* Largest r with r * r <= n.
RECURSIVE IntegerRoot(_, _)
IntegerRoot(n, r) == IF (r + 1) * (r + 1) > n THEN r ELSE IntegerRoot(n, r + 1)

\* std::sqrt of an exact quotient: the quotient of the roots when numerator
\* and denominator are squares, else the irrational root of f.
Sqrt(f) ==
  LET rn == IntegerRoot(f[1], 0)
      rd == IntegerRoot(f[2], 0)
  IN  IF rn * rn = f[1] /\ rd * rd = f[2]
      THEN [rational |-> TRUE, value |-> <<rn, rd>>]
      ELSE [rational |-> FALSE, root_of |-> f]

\* Mesh::distance(point)
distance(m, point) == Sqrt(CellSquaredDistance(m, closest_cell(m, point), point))

\* Cell::midpoint(): the mean of the vertex coordinates (the coordinates of
\* the input meshes make it a point with integer coordinates).
midpoint(m, c) ==
  LET vertices == At(m.cells, c)
      sum == Add(At(m.coords, At(vertices, 0)),
                 Add(At(m.coords, At(vertices, 1)), At(m.coords, At(vertices, 2))))
  IN  <<sum[1] \div 3, sum[2] \div 3, sum[3] \div 3>>

\* Side of a grid square of the input meshes, in model units; the 2 x 2
\* unit square has side 2 * ClosestScale, so that 0.25 is ClosestScale / 2.
ClosestScale == 6

K(x, y, z) == <<ClosestScale * x, ClosestScale * y, ClosestScale * z>>

\* Input meshes: UnitSquareMesh(2, 2), a square of two cells, one cell, all
\* in R^2; one cell in the plane z = 0 of R^3; a surface of two cells in R^3
\* folded along their common edge.
ClosestMeshes ==
  << [gdim |-> 2,
      coords |-> <<K(0,0,0), K(1,0,0), K(2,0,0), K(0,1,0), K(1,1,0), K(2,1,0),
                   K(0,2,0), K(1,2,0), K(2,2,0)>>,
      cells  |-> << <<0,1,4>>, <<0,3,4>>, <<1,2,5>>, <<1,4,5>>,
                    <<3,4,7>>, <<3,6,7>>, <<4,5,8>>, <<4,7,8>> >>],
     [gdim |-> 2,
      coords |-> <<K(0,0,0), K(1,0,0), K(0,1,0), K(1,1,0)>>,
      cells  |-> << <<0,1,3>>, <<0,2,3>> >>],
     [gdim |-> 2,
      coords |-> <<K(0,0,0), K(1,0,0), K(0,1,0)>>,
      cells  |-> << <<0,1,2>> >>],
     [gdim |-> 3,
      coords |-> <<K(0,0,0), K(1,0,0), K(0,1,0)>>,
      cells  |-> << <<0,1,2>> >>],
     [gdim |-> 3,
      coords |-> <<K(0,0,0), K(1,0,0), K(0,1,0), <<3, 3, 6>> >>,
      cells  |-> << <<0,1,2>>, <<0,1,3>> >>] >>

ClosestMesh(b, pe, po) ==
  [ctype       |-> "triangle",
   gdim        |-> ClosestMeshes[b].gdim,
   coords      |-> ClosestMeshes[b].coords,
   cells       |-> [c \in DOMAIN ClosestMeshes[b].cells |->
                      Permute(ClosestMeshes[b].cells[c], IF c % 2 = 1 THEN pe ELSE po)],
   facets      |-> <<>>,
   cell_facets |-> <<>>,
   facet_cells |-> <<>>]

\* Number of grid steps (of half a grid square) the query points range
\* beyond the 2 x 2 square on every side.
QueryMargin == 2

QueryGrid == {(ClosestScale \div 2) * k : k \in (-QueryMargin)..(4 + QueryMargin)}

\* Query points: the midpoints of the cells, for a mesh in R^3 the points
\* half a grid square above them, and the points of a grid around the mesh,
\* in the plane z = 0 for a mesh in R^2.
QueryPoints(m) ==
  {midpoint(m, c) : c \in 0..(Len(m.cells) - 1)}
    \cup {Add(midpoint(m, c), <<0, 0, z>>) :
            c \in 0..(Len(m.cells) - 1),
            z \in IF m.gdim = 2 THEN {0} ELSE {ClosestScale \div 2}}
    \cup {<<x, y, z>> : x \in QueryGrid, y \in QueryGrid,
                        z \in IF m.gdim = 2 THEN {0} ELSE {0, ClosestScale \div 2}}

\* A mesh and no query issued yet.
InitClosest ==
  /\ \E b \in DOMAIN ClosestMeshes, pe \in Perm3, po \in Perm3 :
       mesh = ClosestMesh(b, pe, po)
  /\ query = [op |-> Pending]
  /\ shared = Idle /\ btype = Idle /\ boundary = Idle /\ error = Idle
  /\ reorder_call = Idle /\ tri_call = Idle
  /\ topo_call = Idle /\ index = Idle /\ csg = Idle /\ editor = Idle /\ sax = Idle

\* mesh.closest_cell(point)
ClosestCell(point) ==
  /\ query.op = Pending
  /\ query' = [op |-> "closest_cell", point |-> point, cell |-> closest_cell(mesh, point)]
  /\ UNCHANGED mesh
  /\ UNCHANGED closestOthers

\* mesh.distance(point)
Distance(point) ==
  /\ query.op = Pending
  /\ query' = [op |-> "distance", point |-> point, dist |-> distance(mesh, point)]
  /\ UNCHANGED mesh
  /\ UNCHANGED closestOthers

NextClosest ==
  \/ \E point \in QueryPoints(mesh) : ClosestCell(point)
  \/ \E point \in QueryPoints(mesh) : Distance(point)

SpecClosest == InitClosest /\ [][NextClosest]_vars

-----------------------------------------------------------------------------
(* Claims on the closest-cell queries, checked under SpecClosest *)

CellIndices == 0..(Len(mesh.cells) - 1)

CellCorner(c, i) == At(mesh.coords, At(At(mesh.cells, c), i))

\* The point lies in the closed region of cell c.
PointInCell(c, point) ==
  InClosedTriangle(point, CellCorner(c, 0), CellCorner(c, 1), CellCorner(c, 2))

\* Euclidean squared distance from the point to the closed region of cell c.
TrueCellSquaredDistance(c, point) ==
  TrueSquaredDistance(point, CellCorner(c, 0), CellCorner(c, 1), CellCorner(c, 2))

Zero == <<0, 1>>

\* The square of a value returned by distance.
DistanceSquared(d) ==
  IF d.rational THEN Frac(d.value[1] * d.value[1], d.value[2] * d.value[2]) ELSE d.root_of

Queried == query.op # Pending

\* C5: for every cell c, closest_cell(midpoint(c)) is c and
\* distance(midpoint(c)) is 0; the squared_distance kernel is 0 for the
\* midpoint against c and positive against every other cell.
C5_MidpointResolvesToOwnCell ==
  Queried =>
    \A c \in CellIndices :
      query.point = midpoint(mesh, c) =>
        /\ query.op = "closest_cell" => query.cell = c
        /\ query.op = "distance" => query.dist = Sqrt(Zero)
        /\ CellSquaredDistance(mesh, c, query.point) = Zero
        /\ \A e \in CellIndices \ {c} :
             FracLess(Zero, CellSquaredDistance(mesh, e, query.point))

\* The part of C5 that the code meets: the same statement for a mesh in R^2.
MidpointResolvesToOwnCellPlanar == (Queried /\ mesh.gdim = 2) => C5_MidpointResolvesToOwnCell

\* C6: closest_cell(point) is a cell of smallest squared_distance, the
\* lowest index among them, and when the point lies in a cell the result is
\* a cell that contains it.
C6_ClosestCellMinimizes ==
  query.op = "closest_cell" =>
    /\ \A e \in CellIndices :
         FracLeq(CellSquaredDistance(mesh, query.cell, query.point),
                 CellSquaredDistance(mesh, e, query.point))
    /\ \A e \in CellIndices :
         e < query.cell =>
           FracLess(CellSquaredDistance(mesh, query.cell, query.point),
                    CellSquaredDistance(mesh, e, query.point))
    /\ (\E e \in CellIndices : PointInCell(e, query.point)) =>
         PointInCell(query.cell, query.point)

\* The part of C6 that the code meets: the same statement for a mesh in R^2.
ClosestCellMinimizesPlanar == mesh.gdim = 2 => C6_ClosestCellMinimizes

\* The 2 x 2 unit square with its cells as UnitSquareMesh lists them.
IsUnitSquare == mesh.coords = ClosestMeshes[1].coords /\ Len(mesh.cells) = 8

\* The point (0.25, -0.5, 0) of the unit square.
FixturePoint == <<ClosestScale \div 2, -ClosestScale, 0>>

\* C7: distance(point) is the square root of squared_distance(point,
\* closest_cell(point)); it is the Euclidean distance to the nearest cell for
\* a point outside the mesh and 0 for a point in a cell; on the 2 x 2 unit
\* square the point (0.25, -0.5, 0) has distance 0.5.
C7_DistanceIsEuclidean ==
  query.op = "distance" =>
    /\ \E c \in CellIndices :
         /\ \A e \in CellIndices :
              FracLeq(CellSquaredDistance(mesh, c, query.point),
                      CellSquaredDistance(mesh, e, query.point))
         /\ DistanceSquared(query.dist) = CellSquaredDistance(mesh, c, query.point)
    /\ \A e \in CellIndices :
         FracLeq(DistanceSquared(query.dist), TrueCellSquaredDistance(e, query.point))
    /\ \E e \in CellIndices :
         DistanceSquared(query.dist) = TrueCellSquaredDistance(e, query.point)
    /\ (\E e \in CellIndices : PointInCell(e, query.point)) => query.dist = Sqrt(Zero)
    /\ (IsUnitSquare /\ query.point = FixturePoint) =>
         query.dist = [rational |-> TRUE, value |-> <<ClosestScale, 1>>]

\* The part of C7 that the code meets: the same statement for a mesh in R^2,
\* with the cell the fixture point resolves to.
DistanceIsEuclideanPlanar ==
  mesh.gdim = 2 =>
    /\ C7_DistanceIsEuclidean
    /\ (query.op = "closest_cell" /\ IsUnitSquare /\ query.point = FixturePoint) =>
         query.cell = 0

-----------------------------------------------------------------------------
(* Entity-entity intersection (IntersectionOperator::all_intersected_entities
   with the "ExactPredicates" kernel), as the unit test
   testEntityEntityIntersection drives it *)

\* The sequence of the elements of a set of integers, in increasing order.
SortedSeq(S) ==
  [i \in 1..Cardinality(S) |-> CHOOSE x \in S : Cardinality({y \in S : y < x}) = i - 1]

RECURSIVE VertexCode(_)
\* A number that orders vertex sets.
VertexCode(T) ==
  IF T = {} THEN 0
  ELSE LET v == CHOOSE x \in T : \A y \in T : y <= x
       IN  2 ^ v + VertexCode(T \ {v})

\* The entities of dimension d of a simplicial mesh: the vertex sets of
\* d + 1 vertices of one cell, numbered from 0.
EntityTable(cells, d) ==
  LET all == UNION {{T \in SUBSET Range(cells[c]) : Cardinality(T) = d + 1} :
                     c \in DOMAIN cells}
  IN  [i \in 1..Cardinality(all) |->
         CHOOSE T \in all :
           Cardinality({U \in all : VertexCode(U) < VertexCode(T)}) = i - 1]

\* Number of cells of the interval mesh.
IntervalCells == 3

\* UnitIntervalMesh(IntervalCells), scaled to integer coordinates.
UnitIntervalMesh ==
  [ctype  |-> "interval",
   gdim   |-> 1,
   coords |-> [i \in 1..(IntervalCells + 1) |-> <<i - 1, 0, 0>>],
   cells  |-> [i \in 1..IntervalCells |-> <<i - 1, i>>]]

\* UnitSquareMesh(2, 2), scaled to integer coordinates.
UnitSquareMesh ==
  [ctype  |-> "triangle",
   gdim   |-> 2,
   coords |-> ClosestMeshes[1].coords,
   cells  |-> ClosestMeshes[1].cells]

\* The six tetrahedra of the grid cube whose corners are v[1..8].
CubeCells(v) ==
  << <<v[1], v[2], v[4], v[8]>>, <<v[1], v[2], v[8], v[6]>>,
     <<v[1], v[6], v[8], v[5]>>, <<v[1], v[4], v[3], v[8]>>,
     <<v[1], v[7], v[5], v[8]>>, <<v[1], v[3], v[7], v[8]>> >>

\* UnitCubeMesh(2, 1, 1), scaled to integer coordinates.
UnitCubeMesh ==
  [ctype  |-> "tetrahedron",
   gdim   |-> 3,
   coords |-> [i \in 1..12 |-> <<(i - 1) % 3, ((i - 1) \div 3) % 2, (i - 1) \div 6>>],
   cells  |-> CubeCells(<<0, 1, 3, 4, 6, 7, 9, 10>>)
                \o CubeCells(<<1, 2, 4, 5, 7, 8, 10, 11>>)]

GridMeshes == {UnitIntervalMesh, UnitSquareMesh, UnitCubeMesh}

\* The mesh with its entities of every dimension computed.
WithEntities(m) ==
  [ctype       |-> m.ctype,
   gdim        |-> m.gdim,
   coords      |-> m.coords,
   cells       |-> m.cells,
   entities    |-> [k \in 1..(Dim(m.ctype) + 1) |-> EntityTable(m.cells, k - 1)],
   facets      |-> <<>>,
   cell_facets |-> <<>>,
   facet_cells |-> <<>>]

\* Vertex set of entity i of dimension d.
EntityVertices(m, d, i) == At(m.entities[d + 1], i)

EntityIndices(m, d) == 0..(Len(m.entities[d + 1]) - 1)

\* One vector along every edge of the entity with vertex set E.
EdgeVectors(m, E) ==
  {Sub(At(m.coords, w), At(m.coords, v)) : <<v, w>> \in {pr \in E \X E : pr[1] < pr[2]}}

\* Candidate normals of a plane separating two convex hulls: the edge
\* directions of both, one vector between them, the coordinate axes, and the
\* cross products of all these.
SeparatingAxes(m, E, F) ==
  LET lowE == CHOOSE v \in E : \A w \in E : v <= w
      lowF == CHOOSE v \in F : \A w \in F : v <= w
      D == EdgeVectors(m, E) \cup EdgeVectors(m, F)
             \cup {Sub(At(m.coords, lowF), At(m.coords, lowE))}
             \cup {<<1, 0, 0>>, <<0, 1, 0>>, <<0, 0, 1>>}
  IN  D \cup {Cross(u, v) : u \in D, v \in D}

\* Every point of E lies strictly below every point of F along axis a.
StrictlyBelow(m, a, E, F) ==
  \A v \in E, w \in F : Dot(a, At(m.coords, v)) < Dot(a, At(m.coords, w))

\* Exact test whether the closed simplices with vertex sets E and F meet.
do_intersect(m, E, F) ==
  ~ \E a \in SeparatingAxes(m, E, F) : StrictlyBelow(m, a, E, F) \/ StrictlyBelow(m, a, F, E)

\* The indices of the dim0-entities that meet entity e of dimension dim1.
all_intersected_entities(m, dim0, dim1, e) ==
  SortedSeq({i \in EntityIndices(m, dim0) :
               do_intersect(m, EntityVertices(m, dim0, i), EntityVertices(m, dim1, e))})

\* The test suite leaves the intersection of tetrahedra with segments out
\* because it "does not work yet".
Supported(m, dim0, dim1) == ~ (m.ctype = "tetrahedron" /\ dim0 = 3 /\ dim1 = 1)

InitIntersect ==
  /\ \E m \in GridMeshes : mesh = WithEntities(m)
  /\ query = [op |-> Pending]
  /\ shared = Idle /\ btype = Idle /\ boundary = Idle /\ error = Idle
  /\ reorder_call = Idle /\ tri_call = Idle
  /\ topo_call = Idle /\ index = Idle /\ csg = Idle /\ editor = Idle /\ sax = Idle

\* io.all_intersected_entities(entity, ids_result) for a supported pair
AllIntersectedEntities(dim0, dim1, e) ==
  /\ query.op = Pending
  /\ Supported(mesh, dim0, dim1)
  /\ query' = [op |-> "all_intersected_entities", dim0 |-> dim0, dim1 |-> dim1,
               entity |-> e, ids |-> all_intersected_entities(mesh, dim0, dim1, e)]
  /\ UNCHANGED mesh
  /\ UNCHANGED closestOthers

\* io.all_intersected_entities(edge, ids_result) on tetrahedra: the result is
\* not determined.
AllIntersectedTetrahedraOfSegment(e, ids) ==
  /\ query.op = Pending
  /\ ~ Supported(mesh, 3, 1)
  /\ query' = [op |-> "all_intersected_entities", dim0 |-> 3, dim1 |-> 1,
               entity |-> e, ids |-> SortedSeq(ids)]
  /\ UNCHANGED mesh
  /\ UNCHANGED closestOthers

NextIntersect ==
  \/ /\ query.op = Pending
     /\ \E dim0 \in 0..Dim(mesh.ctype), dim1 \in 0..Dim(mesh.ctype) :
          /\ dim1 <= dim0
          /\ \E e \in EntityIndices(mesh, dim1) : AllIntersectedEntities(dim0, dim1, e)
  \/ /\ query.op = Pending
     /\ ~ Supported(mesh, 3, 1)
     /\ \E e \in EntityIndices(mesh, 1), ids \in SUBSET EntityIndices(mesh, 3) :
          AllIntersectedTetrahedraOfSegment(e, ids)

SpecIntersect == InitIntersect /\ [][NextIntersect]_vars

-----------------------------------------------------------------------------
(* Claims on the entity-entity intersection, checked under SpecIntersect *)

\* The dim0-entities that share a vertex with entity e of dimension dim1,
\* from the vertex -> dim0 connectivity.
SharingVertex(dim0, dim1, e) ==
  UNION {{i \in EntityIndices(mesh, dim0) : v \in EntityVertices(mesh, dim0, i)} :
          v \in EntityVertices(mesh, dim1, e)}

IntersectionQueried == query.op = "all_intersected_entities"

\* C8: on a regular grid mesh of intervals, triangles or tetrahedra,
\* all_intersected_entities(e) returns without duplicates exactly the
\* dim0-entities that share a vertex with e, for every pair
\* 0 <= dim1 <= dim0 <= tdim.
C8_IntersectedEqualsSharingVertex ==
  IntersectionQueried =>
    /\ Range(query.ids) = SharingVertex(query.dim0, query.dim1, query.entity)
    /\ Injective(query.ids)

\* The part of C8 that the model meets: every pair but tetrahedra against
\* segments.
IntersectedEqualsSharingVertexSupported ==
  (IntersectionQueried /\ Supported(mesh, query.dim0, query.dim1)) =>
    C8_IntersectedEqualsSharingVertex

-----------------------------------------------------------------------------
(* Mesh topology: Mesh::init, Mesh::order (TriangleCell::order) and the
   operations that read the tables.  A mesh of this part carries, next to
   the four tables above, the field `derived` with the tables of the other
   dimension pairs (<<>> while not computed) and the field `l2g` with the
   global index of every vertex and the flag `ordered` (Mesh::_ordered). *)

\* The dimension pairs whose table is kept in the field `derived`.
DerivedPairs == {<<0, 0>>, <<0, 1>>, <<0, 2>>, <<1, 1>>, <<2, 2>>}

DimPairs == {<<d0, d1>> : d0 \in 0..2, d1 \in 0..2}

\* topology(d0, d1)
Table(m, d0, d1) ==
  CASE <<d0, d1>> = <<2, 0>> -> m.cells
    [] <<d0, d1>> = <<1, 0>> -> m.facets
    [] <<d0, d1>> = <<2, 1>> -> m.cell_facets
    [] <<d0, d1>> = <<1, 2>> -> m.facet_cells
    [] OTHER -> m.derived[<<d0, d1>>]

\* topology.size(d)
TopologySize(m, d) ==
  CASE d = 0 -> Len(m.coords)
    [] d = 1 -> Len(m.facets)
    [] d = 2 -> Len(m.cells)

\* Mesh::init(d): the entities of dimension d, computed when absent.
mesh_init_entities(m, d) ==
  IF d = 1 /\ m.facets = <<>>
  THEN LET t == ComputeEntities(m.cells, 1, <<>>, <<>>)
       IN  [m EXCEPT !.facets = t.facets, !.cell_facets = t.cell_facets]
  ELSE m

\* Vertex set of every entity of dimension d.
VertexSets(m, d) ==
  CASE d = 0 -> [v \in 1..Len(m.coords) |-> {v - 1}]
    [] d = 1 -> [f \in 1..Len(m.facets) |-> Range(m.facets[f])]
    [] d = 2 -> [c \in 1..Len(m.cells) |-> Range(m.cells[c])]

\* Connectivity d0 - d1 for d0 >= d1 from the vertex sets of the entities:
\* the entities of dimension d1 inside the entity (d0 > d1), or the other
\* entities of the same dimension that share a vertex with it (d0 = d1).
Intersection(m, d0, d1) ==
  LET V0 == VertexSets(m, d0)
      V1 == VertexSets(m, d1)
  IN  [e \in 1..Len(V0) |->
         SortedSeq({i \in 0..(Len(V1) - 1) :
                      IF d0 = d1 THEN i # e - 1 /\ V1[i + 1] \cap V0[e] # {}
                      ELSE V1[i + 1] \subseteq V0[e]})]

\* Connectivity d0 - d1 for d0 < d1 as the transpose of d1 - d0.
TransposeTable(t, n) ==
  [e \in 1..n |-> SortedSeq({i \in 0..(Len(t) - 1) : (e - 1) \in Range(t[i + 1])})]

\* The mesh with table (d0, d1) replaced.
SetTable(m, d0, d1, t) ==
  CASE <<d0, d1>> = <<2, 0>> -> [m EXCEPT !.cells = t]
    [] <<d0, d1>> = <<1, 0>> -> [m EXCEPT !.facets = t]
    [] <<d0, d1>> = <<2, 1>> -> [m EXCEPT !.cell_facets = t]
    [] <<d0, d1>> = <<1, 2>> -> [m EXCEPT !.facet_cells = t]
    [] OTHER -> [m EXCEPT !.derived[<<d0, d1>>] = t]

\* Faulty variant of mesh_init: the table is computed again when present.
mesh_init_again(m, d0, d1) ==
  LET m1 == IF 1 \in {d0, d1}
            THEN LET t == ComputeEntities(m.cells, 1, <<>>, <<>>)
                 IN  [m EXCEPT !.facets = t.facets, !.cell_facets = t.cell_facets]
            ELSE m
  IN  IF <<d0, d1>> \in {<<2, 0>>, <<1, 0>>, <<2, 1>>} THEN m1
      ELSE IF d0 < d1
      THEN SetTable(m1, d0, d1, TransposeTable(Table(m1, d1, d0), TopologySize(m1, d0)))
      ELSE SetTable(m1, d0, d1, Intersection(m1, d0, d1))

\* Mesh::init(d0, d1): a no-op when the table is present; else the entities
\* of both dimensions are computed, and the table by transposition of
\* (d1, d0) for d0 < d1 and from the vertex sets otherwise.
RECURSIVE mesh_init(_, _, _)
mesh_init(m, d0, d1) ==
  IF Table(m, d0, d1) # <<>> THEN m
  ELSE LET m1 == mesh_init_entities(mesh_init_entities(m, d0), d1)
       IN  IF Table(m1, d0, d1) # <<>> THEN m1
           ELSE IF d0 < d1
           THEN LET m2 == mesh_init(m1, d1, d0)
                IN  SetTable(m2, d0, d1,
                             TransposeTable(Table(m2, d1, d0), TopologySize(m2, d0)))
           ELSE SetTable(m1, d0, d1, Intersection(m1, d0, d1))

RECURSIVE InsertSorted(_, _, _)
\* x inserted into the sequence s, which ascends in global index.
InsertSorted(x, s, l2g) ==
  IF s = <<>> THEN <<x>>
  ELSE IF At(l2g, x) < At(l2g, Head(s)) THEN <<x>> \o s
       ELSE <<Head(s)>> \o InsertSorted(x, Tail(s), l2g)

RECURSIVE sort_entities(_, _)
\* CellType::sort_entities: the entries in ascending order of global index.
sort_entities(entities, l2g) ==
  IF entities = <<>> THEN <<>>
  ELSE InsertSorted(Head(entities), sort_entities(Tail(entities), l2g), l2g)

\* Faulty variant of SwapEdges: the exchange written without the temporary.
SwapEdgesNoTmp(cell_edges, i, j) == [cell_edges EXCEPT ![i + 1] = cell_edges[j + 1]]

\* The exchange of cell_edges[i] and cell_edges[j].
SwapEdges(cell_edges, i, j) ==
  [cell_edges EXCEPT ![i + 1] = cell_edges[j + 1], ![j + 1] = cell_edges[i + 1]]

RECURSIVE SortEdgeVerticesWrongEdge(_, _, _, _)
\* Faulty variant of SortEdgeVertices: the sorted vertices of every edge are
\* written to the first edge of the cell.
SortEdgeVerticesWrongEdge(facets, cell_edges, l2g, i) ==
  IF i >= 3 THEN facets
  ELSE SortEdgeVerticesWrongEdge(
         [facets EXCEPT ![At(cell_edges, 0) + 1] =
            sort_entities(facets[At(cell_edges, i) + 1], l2g)],
         cell_edges, l2g, i + 1)

RECURSIVE SortEdgeVertices(_, _, _, _)
\* First part of TriangleCell::order: the vertices of the three edges of the
\* cell are sorted, edge i of the cell onwards.
SortEdgeVertices(facets, cell_edges, l2g, i) ==
  IF i >= 3 THEN facets
  ELSE SortEdgeVertices(
         [facets EXCEPT ![At(cell_edges, i) + 1] = sort_entities(@, l2g)],
         cell_edges, l2g, i + 1)

RECURSIVE SortCellEdges(_, _, _, _)
\* Third part of TriangleCell::order: for i = 0, 1, 2 the first edge at a
\* position j >= i that does not contain vertex i of the cell is exchanged
\* with the edge at position i.
SortCellEdges(facets, cell_vertices, cell_edges, i) ==
  IF i >= 3 THEN cell_edges
  ELSE LET J == {j \in i..2 : At(cell_vertices, i) \notin Range(At(facets, At(cell_edges, j)))}
       IN  IF J = {} THEN SortCellEdges(facets, cell_vertices, cell_edges, i + 1)
           ELSE LET j == CHOOSE k \in J : \A l \in J : k <= l
                IN  SortCellEdges(facets, cell_vertices, SwapEdges(cell_edges, i, j), i + 1)

\* Faulty variant of order_cell: the edges of the cell are put in their
\* positions before the vertices of the cell are sorted.
order_cell_edges_first(m, c) ==
  LET m1 == IF m.facets # <<>>
            THEN [m EXCEPT !.facets = SortEdgeVertices(m.facets, At(m.cell_facets, c), m.l2g, 0)]
            ELSE m
      m2 == IF m1.cell_facets # <<>>
            THEN [m1 EXCEPT !.cell_facets[c + 1] =
                    SortCellEdges(m1.facets, At(m1.cells, c), @, 0)]
            ELSE m1
  IN  IF m2.cells # <<>>
      THEN [m2 EXCEPT !.cells[c + 1] = sort_entities(@, m.l2g)]
      ELSE m2

\* TriangleCell::order(cell, local_to_global_vertex_indices) for cell c.
order_cell(m, c) ==
  LET m1 == IF m.facets # <<>>
            THEN [m EXCEPT !.facets = SortEdgeVertices(m.facets, At(m.cell_facets, c), m.l2g, 0)]
            ELSE m
      m2 == IF m1.cells # <<>>
            THEN [m1 EXCEPT !.cells[c + 1] = sort_entities(@, m.l2g)]
            ELSE m1
  IN  IF m2.cell_facets # <<>>
      THEN [m2 EXCEPT !.cell_facets[c + 1] =
              SortCellEdges(m2.facets, At(m2.cells, c), @, 0)]
      ELSE m2

RECURSIVE OrderCells(_, _)
\* The cells ordered one after the other, cell c onwards.
OrderCells(m, c) ==
  IF c >= Len(m.cells) THEN m ELSE OrderCells(order_cell(m, c), c + 1)

\* Mesh::order(): every cell is ordered and the mesh remembers it.
order(m) == [OrderCells(m, 0) EXCEPT !.ordered = TRUE]

\* Numbers of the vertices among the processes: the local numbers, or the
\* local numbers in reverse.
GlobalIndices(n) == {[v \in 1..n |-> v - 1], [v \in 1..n |-> n - v]}

\* Number of input meshes of the topology specification.
TopologyMeshes == 3

TopologyMesh(b, pe, po, l2g) ==
  [ctype       |-> "triangle",
   gdim        |-> BaseMeshes[b].gdim,
   coords      |-> BaseMeshes[b].coords,
   cells       |-> InputMesh(b, pe, po).cells,
   facets      |-> <<>>,
   cell_facets |-> <<>>,
   facet_cells |-> <<>>,
   derived     |-> [pr \in DerivedPairs |-> <<>>],
   l2g         |-> l2g,
   ordered     |-> FALSE]

InitTopology ==
  /\ \E b \in 1..TopologyMeshes, pe \in {<<1, 2, 3>>, <<2, 3, 1>>, <<3, 2, 1>>}, po \in {<<3, 1, 2>>} :
       \E l2g \in GlobalIndices(Len(BaseMeshes[b].coords)) :
         mesh = TopologyMesh(b, pe, po, l2g)
  /\ topo_call = [op |-> Pending]
  /\ boundary = NoBoundary
  /\ query = [op |-> Pending]
  /\ shared = {} /\ btype = "" /\ error = FALSE
  /\ reorder_call = Idle /\ tri_call = Idle /\ index = Idle /\ csg = Idle /\ editor = Idle /\ sax = Idle

\* What the operations of this part leave alone.
topologyOthers == <<shared, btype, error, reorder_call, tri_call, index, csg, editor, sax>>

\* The record of a call: the operation, its arguments, and whether what was
\* asked for was there already (the table, the entities, the ordering).
Call(op, d0, d1, present) == [op |-> op, d0 |-> d0, d1 |-> d1, present |-> present]

\* mesh.init(d0, d1)
MeshInit(d0, d1) ==
  /\ mesh' = mesh_init(mesh, d0, d1)
  /\ topo_call' = Call("init", d0, d1, Table(mesh, d0, d1) # <<>>)
  /\ UNCHANGED <<boundary, query>>
  /\ UNCHANGED topologyOthers

\* mesh.init(d), also made by mesh.size(d) and by an iteration over the
\* entities of dimension d
MeshInitEntities(d) ==
  /\ mesh' = mesh_init_entities(mesh, d)
  /\ topo_call' = Call("init_entities", d, d, TopologySize(mesh, d) > 0)
  /\ UNCHANGED <<boundary, query>>
  /\ UNCHANGED topologyOthers

\* mesh.order()
Order ==
  /\ mesh' = order(mesh)
  /\ topo_call' = Call("order", 0, 0, mesh.ordered)
  /\ UNCHANGED <<boundary, query>>
  /\ UNCHANGED topologyOthers

\* BoundaryMesh(mesh, "exterior")
TopologyBoundary ==
  /\ mesh' = mesh_init(mesh, 1, 2)
  /\ boundary' = compute_boundary(mesh', shared, "exterior")
  /\ topo_call' = Call("boundary", 1, 2, Table(mesh, 1, 2) # <<>>)
  /\ UNCHANGED query
  /\ UNCHANGED topologyOthers

\* mesh.closest_cell(point)
TopologyQuery(point) ==
  /\ query' = [op |-> "closest_cell", point |-> point, cell |-> closest_cell(mesh, point)]
  /\ topo_call' = Call("closest_cell", 0, 0, TRUE)
  /\ UNCHANGED <<mesh, boundary>>
  /\ UNCHANGED topologyOthers

NextTopology ==
  \/ \E pr \in DimPairs : MeshInit(pr[1], pr[2])
  \/ \E d \in 0..2 : MeshInitEntities(d)
  \/ Order
  \/ TopologyBoundary
  \/ TopologyQuery(<<1, 1, 0>>)

SpecTopology == InitTopology /\ [][NextTopology]_vars

-----------------------------------------------------------------------------
(* Claims on the topology, checked under SpecTopology *)

\* Two tables with the same rows up to the order of the entries of a row.
SetsKept(t, u) ==
  /\ Len(t) = Len(u)
  /\ \A i \in DOMAIN t : Len(t[i]) = Len(u[i]) /\ Range(t[i]) = Range(u[i])

\* The tables TriangleCell::order writes to.
OrderedPairs == {<<2, 0>>, <<2, 1>>, <<1, 0>>}

SizesKept == \A d \in 0..2 : TopologySize(mesh', d) = TopologySize(mesh, d)

\* C11: order() applied to a mesh that has been ordered changes no table
\* entry, and every application keeps, in every cell's vertex list, every
\* cell's edge list and every edge's vertex list, the same set of indices;
\* no entity is renumbered, added or dropped.
C11_OrderIdempotent ==
  [][topo_call'.op = "order" =>
       /\ mesh.ordered => mesh' = mesh
       /\ \A pr \in OrderedPairs : SetsKept(Table(mesh, pr[1], pr[2]), Table(mesh', pr[1], pr[2]))
       /\ \A pr \in DimPairs \ OrderedPairs :
            Table(mesh', pr[1], pr[2]) = Table(mesh, pr[1], pr[2])
       /\ SizesKept]_vars

ReversedNumbering == Len(mesh.cells) >= 2 /\ At(mesh.l2g, 0) > At(mesh.l2g, 1)

\* C11 witness: a second order() on a mesh of several cells with edges whose
\* cells were not all in order at the start.
C11_Witness ==
  /\ topo_call.op = "order"
  /\ topo_call.present
  /\ ReversedNumbering
  /\ mesh.facets # <<>>

C13_TablesImmutable ==
  [][/\ \A pr \in DimPairs :
          Table(mesh, pr[1], pr[2]) # <<>> =>
            Table(mesh', pr[1], pr[2]) = Table(mesh, pr[1], pr[2])
     /\ \A d \in 0..2 : TopologySize(mesh', d) >= TopologySize(mesh, d)]_vars

\* C13 amended: a computed table keeps its rows and in every row the same
\* set of entries; order() alone changes the positions of entries within a
\* row; the number of entities of a dimension never decreases.
C13_TablesKeepContent ==
  [][/\ \A pr \in DimPairs :
          Table(mesh, pr[1], pr[2]) # <<>> =>
            /\ SetsKept(Table(mesh, pr[1], pr[2]), Table(mesh', pr[1], pr[2]))
            /\ topo_call'.op # "order" =>
                 Table(mesh', pr[1], pr[2]) = Table(mesh, pr[1], pr[2])
     /\ \A d \in 0..2 : TopologySize(mesh', d) >= TopologySize(mesh, d)]_vars

\* C13 witness: the first order() of a mesh with edges and a table derived
\* from them, whose cells were not all in order.
C13_Witness ==
  /\ topo_call.op = "order"
  /\ ~topo_call.present
  /\ ReversedNumbering
  /\ mesh.facets # <<>>
  /\ mesh.facet_cells # <<>>

\* The vertices of a cell other than its vertex i, in the order of the cell.
SideOpposite(v, i) == SelectSeq(v, LAMBDA x : x # At(v, i))

\* The sides of the cells of m in the order of the pass of init(1): cell by
\* cell, and within a cell by local edge position.
SidesInOrder(m) ==
  [k \in 1..(3 * Len(m.cells)) |-> SideOpposite(m.cells[((k - 1) \div 3) + 1], (k - 1) % 3)]

\* Position in SidesInOrder of the first side with the vertices of edge f.
FirstEncounter(m, f) ==
  CHOOSE k \in 1..(3 * Len(m.cells)) :
    /\ Range(SidesInOrder(m)[k]) = Range(At(m.facets, f))
    /\ \A l \in 1..(k - 1) : Range(SidesInOrder(m)[l]) # Range(At(m.facets, f))

\* The edge tables of m are those the creation pass makes from its cells.
EdgesAsCreated(m) ==
  LET F == 0..(Len(m.facets) - 1)
  IN  /\ {Range(At(m.facets, f)) : f \in F} = {Range(SidesInOrder(m)[k]) : k \in DOMAIN SidesInOrder(m)}
      /\ \A f, g \in F : Range(At(m.facets, f)) = Range(At(m.facets, g)) => f = g
      /\ \A f \in F : At(m.facets, f) = SidesInOrder(m)[FirstEncounter(m, f)]
      /\ \A f, g \in F : f < g => FirstEncounter(m, f) < FirstEncounter(m, g)
      /\ Len(m.cell_facets) = Len(m.cells)
      /\ \A c \in 0..(Len(m.cells) - 1) : \A i \in 0..2 :
           Range(At(m.facets, At(At(m.cell_facets, c), i))) = Range(SideOpposite(At(m.cells, c), i))

\* C23: the step that creates the edges of a triangle mesh makes one edge
\* per pair of vertices that is a side of some cell, so that cells with a
\* common side refer to one edge; the edges are numbered from 0 in the order
\* in which the pass over the cells and their local edge positions meets
\* them first, each listing the vertices of the cell other than vertex i in
\* the order of the cell (e0 = (v1,v2), e1 = (v0,v2), e2 = (v0,v1)); and
\* edge i of every cell is the one opposite its vertex i.
C23_EdgesCreatedOnce ==
  [][(mesh.facets = <<>> /\ mesh'.facets # <<>>) => EdgesAsCreated(mesh')]_vars

\* init(1) has created the edges of a mesh with a side common to two cells
\* whose vertices were not all listed in the order of the base mesh.
C23_Witness ==
  /\ topo_call.op = "init_entities"
  /\ topo_call.d0 = 1
  /\ ~topo_call.present
  /\ Len(mesh.facets) < 3 * Len(mesh.cells)
  /\ At(mesh.cells, 0) # BaseMeshes[2].cells[1]
  /\ ~mesh.ordered

-----------------------------------------------------------------------------
(* The spatial index of a mesh (the IntersectionOperator member): built from
   the coordinates on the first query, invalidated by a change of the
   geometry, built again by the next query.  `index` holds its state, the
   coordinates it was built from and the number of geometry changes made. *)

\* Largest number of geometry changes in one behaviour.
MaxMutations == 2

IndexQueries == {"intersected_cells", "closest_cell", "distance"}

Mutations == {"move", "rotate", "smooth"}

IndexPoints == {K(0, 0, 0), <<2, 1, 0>>, <<-3, 3, 0>>, <<9, 9, 0>>}

\* Faulty variant of Invalidated: a change of the geometry leaves the index
\* as it is.
InvalidatedNever(state) == state

\* State of the index after a change of the geometry.
Invalidated(state) == IF state = "built" THEN "invalidated" ELSE state

\* The coordinates after a geometry change: move translates by one grid
\* square along x, rotate turns by 90 degrees around the z-axis through the
\* origin, smooth leaves the vertices of the boundary where they are.
Mutated(kind, coords) ==
  CASE kind = "move"   -> [v \in DOMAIN coords |-> Add(coords[v], K(1, 0, 0))]
    [] kind = "rotate" -> [v \in DOMAIN coords |-> <<-coords[v][2], coords[v][1], coords[v][3]>>]
    [] kind = "smooth" -> coords

\* The index a query works with: the present one when built, else one built
\* from the present coordinates.
Rebuilt(ix, coords) ==
  IF ix.state = "built" THEN ix
  ELSE [ix EXCEPT !.state = "built", !.coords = coords, !.builds = @ + 1]

\* The cells that contain the point.
intersected_cells(m, point) ==
  {c \in 0..(Len(m.cells) - 1) :
     contains(At(m.coords, At(At(m.cells, c), 0)), At(m.coords, At(At(m.cells, c), 1)),
              At(m.coords, At(At(m.cells, c), 2)), point)}

\* The answer to a query from the coordinates the index holds.
Answer(op, m, coords, point) ==
  LET im == [m EXCEPT !.coords = coords]
  IN  CASE op = "intersected_cells" -> intersected_cells(im, point)
        [] op = "closest_cell" -> closest_cell(im, point)
        [] op = "distance" -> distance(im, point)

InitIndex ==
  /\ \E pe \in Perm3 : mesh = ClosestMesh(2, pe, <<1, 2, 3>>)
  /\ index = [state |-> "absent", coords |-> <<>>, builds |-> 0, mutations |-> 0,
              last |-> Pending]
  /\ query = [op |-> Pending]
  /\ shared = Idle /\ btype = Idle /\ boundary = Idle /\ error = Idle
  /\ reorder_call = Idle /\ tri_call = Idle /\ topo_call = Idle /\ csg = Idle /\ editor = Idle /\ sax = Idle

indexOthers == <<shared, btype, boundary, error, reorder_call, tri_call, topo_call, csg, editor, sax>>

\* mesh.intersected_cells(point), mesh.closest_cell(point), mesh.distance(point)
IndexQuery(op, point) ==
  /\ index' = [Rebuilt(index, mesh.coords) EXCEPT !.last = op]
  /\ query' = [op |-> op, point |-> point, at |-> mesh.coords, read |-> index'.coords,
               result |-> Answer(op, mesh, index'.coords, point)]
  /\ UNCHANGED mesh
  /\ UNCHANGED indexOthers

\* mesh.move(...), mesh.rotate(...), mesh.smooth(...)
Mutate(kind) ==
  /\ index.mutations < MaxMutations
  /\ mesh' = [mesh EXCEPT !.coords = Mutated(kind, @)]
  /\ index' = [index EXCEPT !.state = Invalidated(@), !.mutations = @ + 1, !.last = kind]
  /\ UNCHANGED query
  /\ UNCHANGED indexOthers

NextIndex ==
  \/ \E op \in IndexQueries, point \in IndexPoints : IndexQuery(op, point)
  \/ \E kind \in Mutations : Mutate(kind)

SpecIndex == InitIndex /\ [][NextIndex]_vars

-----------------------------------------------------------------------------
(* Claims on the spatial index, checked under SpecIndex *)

-----------------------------------------------------------------------------
(* First queries of several threads on one mesh: the index is built behind a
   one-time-initialisation barrier, one cell at a time, and read afterwards.
   `index` holds the state of the index, the number of cells inserted, the
   number of builds started, and for every thread its position, its query
   and its answer. *)

\* Number of threads.
NumThreads == 2

Threads == 1..NumThreads

\* Faulty variant of MayBuild: a thread builds whenever the index is not
\* built yet.
MayBuildUnguarded(ix) == ix.state # "built"

\* The barrier lets a thread build the index when no build has started.
MayBuild(ix) == ix.state = "absent"

InitThreads ==
  /\ \E pe \in Perm3 : mesh = ClosestMesh(2, pe, <<1, 2, 3>>)
  /\ index = [state |-> "absent", inserted |-> 0, builds |-> 0,
              builders |-> {},
              pc |-> [t \in Threads |-> "idle"],
              call |-> [t \in Threads |-> Pending],
              result |-> [t \in Threads |-> Pending]]
  /\ query = Idle
  /\ shared = Idle /\ btype = Idle /\ boundary = Idle /\ error = Idle
  /\ reorder_call = Idle /\ tri_call = Idle /\ topo_call = Idle /\ csg = Idle /\ editor = Idle /\ sax = Idle

threadsOthers ==
  <<mesh, query, shared, btype, boundary, error, reorder_call, tri_call, topo_call, csg, editor, sax>>

\* Thread t calls a query and arrives at the barrier.
ThreadCall(t, op, point) ==
  /\ index.pc[t] = "idle"
  /\ index' = [index EXCEPT !.pc[t] = "barrier", !.call[t] = <<op, point>>]
  /\ UNCHANGED threadsOthers

\* Thread t passes the barrier: to the build when it is the one to build,
\* to the read when the index is built; it waits while another thread builds.
ThreadEnter(t) ==
  /\ index.pc[t] = "barrier"
  /\ \/ /\ MayBuild(index)
        /\ index' = [index EXCEPT !.pc[t] = "build", !.state = "building",
                                  !.builds = @ + 1, !.builders = @ \cup {t}]
     \/ /\ index.state = "built"
        /\ index' = [index EXCEPT !.pc[t] = "read"]
  /\ UNCHANGED threadsOthers

\* Thread t inserts the next cell, and leaves the build after the last one.
ThreadBuild(t) ==
  /\ index.pc[t] = "build"
  /\ IF index.inserted + 1 >= Len(mesh.cells)
     THEN index' = [index EXCEPT !.inserted = Len(mesh.cells), !.state = "built",
                                 !.builders = @ \ {t}, !.pc[t] = "read"]
     ELSE index' = [index EXCEPT !.inserted = @ + 1]
  /\ UNCHANGED threadsOthers

\* Thread t reads the index: the answer comes from the cells inserted.
ThreadRead(t) ==
  /\ index.pc[t] = "read"
  /\ index' = [index EXCEPT
                 !.pc[t] = "done",
                 !.result[t] =
                   Answer(index.call[t][1],
                          [mesh EXCEPT !.cells = SubSeq(mesh.cells, 1, index.inserted)],
                          mesh.coords, index.call[t][2])]
  /\ UNCHANGED threadsOthers

NextThreads ==
  \/ \E t \in Threads, op \in {"intersected_cells", "closest_cell"},
        point \in {<<2, 1, 0>>, <<9, 9, 0>>} : ThreadCall(t, op, point)
  \/ \E t \in Threads : ThreadEnter(t)
  \/ \E t \in Threads : ThreadBuild(t)
  \/ \E t \in Threads : ThreadRead(t)

SpecThreads == InitThreads /\ [][NextThreads]_vars

-----------------------------------------------------------------------------
(* Claims on the concurrent first queries, checked under SpecThreads *)

Divisors(point, a, b, c) ==
  LET ab == Sub(b, a)
      ac == Sub(c, a)
      d1 == Dot(ab, Sub(point, a))
      d2 == Dot(ac, Sub(point, a))
      d3 == Dot(ab, Sub(point, b))
      d4 == Dot(ac, Sub(point, b))
      d5 == Dot(ab, Sub(point, c))
      d6 == Dot(ac, Sub(point, c))
  IN  <<d1 - d3, d2 - d6, (d4 - d3) + (d5 - d6)>>

\* C29: for pairwise distinct vertices a, b, c the divisors of
\* squared_distance are |b - a|^2, |c - a|^2 and |c - b|^2, all positive;
\* the value returned is not the result of a division by zero and is at
\* least 0.
C29_DivisorsPositive ==
  (/\ tri_call.op = "squared_distance"
   /\ tri_call.a # tri_call.b /\ tri_call.a # tri_call.c /\ tri_call.b # tri_call.c) =>
    /\ Divisors(tri_call.point, tri_call.a, tri_call.b, tri_call.c)
         = << Dot(Sub(tri_call.b, tri_call.a), Sub(tri_call.b, tri_call.a)),
              Dot(Sub(tri_call.c, tri_call.a), Sub(tri_call.c, tri_call.a)),
              Dot(Sub(tri_call.c, tri_call.b), Sub(tri_call.c, tri_call.b)) >>
    /\ \A k \in 1..3 : Divisors(tri_call.point, tri_call.a, tri_call.b, tri_call.c)[k] > 0
    /\ tri_call.result # NaN
    /\ tri_call.result[2] > 0
    /\ FracLeq(Zero, tri_call.result)

\* The squared distance to a triangle with three distinct vertices on a
\* line was asked for a point off the line, and is not 0.
C29_Witness ==
  /\ tri_call.op = "squared_distance"
  /\ tri_call.a # tri_call.b /\ tri_call.a # tri_call.c /\ tri_call.b # tri_call.c
  /\ Cross(Sub(tri_call.b, tri_call.a), Sub(tri_call.c, tri_call.a)) = <<0, 0, 0>>
  /\ FracLess(Zero, tri_call.result)

\* The squared distance to a non-degenerate triangle was computed with a
\* quotient whose divisor is larger than 1, and is not 0.
C29_WitnessEdge ==
  /\ tri_call.op = "squared_distance"
  /\ Cross(Sub(tri_call.b, tri_call.a), Sub(tri_call.c, tri_call.a)) # <<0, 0, 0>>
  /\ FracLess(Zero, tri_call.result)
  /\ tri_call.result[2] > 1

-----------------------------------------------------------------------------
(* TriangleCell: entity counts, entity creation and the geometry kernels
   volume, diameter, radius_ratio, normal and cell_normal.  A call returns
   [error |-> TRUE] when dolfin_error is raised, else [error |-> FALSE,
   value |-> ...].  Lengths and areas are carried by their squares, which
   are exact fractions; a quotient of doubles with denominator 0 is "inf"
   or "nan". *)

Raised == [error |-> TRUE]

Returned(v) == [error |-> FALSE, value |-> v]

\* TriangleCell::num_entities(dim)
num_entities(dim) ==
  CASE dim = 0 -> Returned(3)
    [] dim = 1 -> Returned(3)
    [] dim = 2 -> Returned(1)
    [] OTHER -> Raised

\* Faulty variant of num_vertices: dimension 3 is answered like a
\* tetrahedron.
num_vertices_lenient(dim) ==
  CASE dim = 0 -> Returned(1)
    [] dim = 1 -> Returned(2)
    [] dim = 2 -> Returned(3)
    [] dim = 3 -> Returned(4)
    [] OTHER -> Raised

\* TriangleCell::num_vertices(dim)
num_vertices(dim) ==
  CASE dim = 0 -> Returned(1)
    [] dim = 1 -> Returned(2)
    [] dim = 2 -> Returned(3)
    [] OTHER -> Raised

\* The array e before create_entities writes to it.
Unwritten == << <<Unset, Unset>>, <<Unset, Unset>>, <<Unset, Unset>> >>

\* TriangleCell::create_entities(e, dim, v): the error leaves e as it is.
create_entities_of(e, dim, v) ==
  IF dim # 1 THEN [error |-> TRUE, e |-> e]
  ELSE [error |-> FALSE, e |-> create_entities(v)]

\* The double x / 0 for x > 0.
Infinity == <<1, 0>>

\* The quotient x / y of two doubles given by their squares.
SquaredQuotient(x2, y2) ==
  IF y2[1] = 0 THEN (IF x2[1] = 0 THEN NaN ELSE Infinity)
  ELSE Frac(x2[1] * y2[2], x2[2] * y2[1])

SquaredNorm(p) == Dot(p, p)

\* The coordinates geometry.x gives for a point: gdim of them.
Coordinates(gdim, p) == [k \in 1..3 |-> IF k <= gdim THEN p[k] ELSE 0]

\* TriangleCell::volume(triangle): the squared area.
volume(entity_dim, gdim, x0, x1, x2) ==
  LET v0 == (x0[2]*x1[3] + x0[3]*x2[2] + x1[2]*x2[3]) - (x2[2]*x1[3] + x2[3]*x0[2] + x1[2]*x0[3])
      v1 == (x0[3]*x1[1] + x0[1]*x2[3] + x1[3]*x2[1]) - (x2[3]*x1[1] + x2[1]*x0[3] + x1[3]*x0[1])
      v2 == (x0[1]*x1[2] + x0[2]*x2[1] + x1[1]*x2[2]) - (x2[1]*x1[2] + x2[2]*x0[1] + x1[1]*x0[2])
  IN  IF entity_dim # 2 THEN Raised
      ELSE IF gdim = 2 THEN Returned(Frac(v2 * v2, 4))
      ELSE IF gdim = 3 THEN Returned(Frac(v0 * v0 + v1 * v1 + v2 * v2, 4))
      ELSE Raised

\* Faulty variant of diameter: the test of the embedding dimension is left
\* out.
diameter_unchecked(entity_dim, gdim, p0, p1, p2) ==
  IF entity_dim # 2 THEN Raised
  ELSE LET a2 == SquaredNorm(Sub(p1, p2))
           b2 == SquaredNorm(Sub(p0, p2))
           c2 == SquaredNorm(Sub(p0, p1))
           vol == Frac(SquaredNorm(Cross(Sub(p1, p0), Sub(p2, p0))), 4)
       IN  [error |-> FALSE, divisor |-> vol,
            value |-> SquaredQuotient(Frac(a2 * b2 * c2, 4), vol)]

\* TriangleCell::diameter(triangle): the squared diameter
\* (0.5*a*b*c / volume)^2, with the squared volume it divided by.
diameter(entity_dim, gdim, p0, p1, p2) ==
  IF entity_dim # 2 THEN Raised
  ELSE IF gdim # 2 /\ gdim # 3 THEN Raised
  ELSE LET a2 == SquaredNorm(Sub(p1, p2))
           b2 == SquaredNorm(Sub(p0, p2))
           c2 == SquaredNorm(Sub(p0, p1))
           vol == volume(entity_dim, gdim, p0, p1, p2)
       IN  IF vol.error THEN Raised
           ELSE [error |-> FALSE, divisor |-> vol.value,
                 value |-> SquaredQuotient(Frac(a2 * b2 * c2, 4), vol.value)]

\* TriangleCell::facet_area(cell, facet): the squared length of the edge
\* opposite vertex `facet`.
facet_area(gdim, v, facet) ==
  LET f == At(create_entities(<<0, 1, 2>>), facet)
      d == Sub(Coordinates(gdim, At(v, At(f, 0))), Coordinates(gdim, At(v, At(f, 1))))
  IN  SquaredNorm(d)

\* Faulty variant of radius_ratio: the degenerate case is not handled.
radius_ratio_unguarded(entity_dim, gdim, v) ==
  LET S == volume(entity_dim, gdim, Coordinates(gdim, At(v, 0)),
                  Coordinates(gdim, At(v, 1)), Coordinates(gdim, At(v, 2)))
  IN  IF S.error THEN Raised
      ELSE LET areas == <<facet_area(gdim, v, 0), facet_area(gdim, v, 1), facet_area(gdim, v, 2)>>
           IN  [error |-> FALSE, areas |-> areas,
                value |-> IF \E k \in 1..3 : areas[k] = 0
                          THEN (IF S.value[1] = 0 THEN [kind |-> "nan"] ELSE [kind |-> "inf"])
                          ELSE [kind |-> "quotient", S2 |-> S.value, abc2 |-> areas]]

\* TriangleCell::radius_ratio(triangle).  `areas` are the squared facet
\* lengths a, b, c the call computed; the value is the literal 0 ("zero")
\* or the quotient 16 S^2 / (a b c (a + b + c)), given by S^2 and a^2, b^2,
\* c^2, which is "inf" or "nan" where a b c (a + b + c) is 0.
radius_ratio(entity_dim, gdim, v) ==
  LET S == volume(entity_dim, gdim, Coordinates(gdim, At(v, 0)),
                  Coordinates(gdim, At(v, 1)), Coordinates(gdim, At(v, 2)))
  IN  IF S.error THEN Raised
      ELSE IF S.value[1] = 0 THEN [error |-> FALSE, areas |-> <<>>, value |-> [kind |-> "zero"]]
      ELSE LET areas == <<facet_area(gdim, v, 0), facet_area(gdim, v, 1), facet_area(gdim, v, 2)>>
           IN  [error |-> FALSE, areas |-> areas,
                value |-> IF \E k \in 1..3 : areas[k] = 0
                          THEN (IF S.value[1] = 0 THEN [kind |-> "nan"] ELSE [kind |-> "inf"])
                          ELSE [kind |-> "quotient", S2 |-> S.value, abc2 |-> areas]]

\* The unit vector along n, "nan" where the norm is 0.
Normalized(n) ==
  IF SquaredNorm(n) = 0 THEN [kind |-> "nan"] ELSE [kind |-> "unit", direction |-> n]

\* TriangleCell::normal(cell, facet): n = (p2 - p0) minus its projection
\* onto t = (p2 - p1)/|p2 - p1|, normalized; the direction is given scaled
\* by |p2 - p1|^2.
normal(gdim, v, facet) ==
  IF gdim # 2 THEN Raised
  ELSE LET f == At(create_entities(<<0, 1, 2>>), facet)
           p0 == At(v, facet)
           p1 == At(v, At(f, 0))
           p2 == At(v, At(f, 1))
           t == Sub(p2, p1)
           n == Sub(p2, p0)
       IN  IF SquaredNorm(t) = 0 THEN Returned([kind |-> "nan"])
           ELSE Returned(Normalized(Sub(Scale(SquaredNorm(t), n), Scale(Dot(n, t), t))))

\* TriangleCell::cell_normal(cell)
cell_normal(gdim, v) ==
  IF gdim > 3 THEN Raised
  ELSE Returned(Normalized(Cross(Sub(At(v, 1), At(v, 0)), Sub(At(v, 2), At(v, 0)))))

\* Largest dimension asked of the counting and creation operations, and
\* largest embedding dimension of a mesh.
MaxDim == 4

\* Vertex coordinates run over 0..CellMax in the plane and 0..CellMaxZ
\* out of it.
CellMax == 2

CellMaxZ == 1

\* The vertices a mesh of embedding dimension gdim can hold.
CellVertices(gdim) ==
  {Coordinates(gdim, <<x, y, z>>) : x \in 0..CellMax, y \in 0..CellMax, z \in 0..CellMaxZ}

cellOthers == <<mesh, shared, btype, boundary, error, reorder_call, query, topo_call, index, csg, editor, sax>>

\* A triangle cell (or, with entity_dim 1, one of its edges) of a mesh of
\* embedding dimension gdim, and a dimension and a facet to ask about.
InitCell ==
  /\ \E gdim \in 1..MaxDim, dim \in 0..MaxDim, facet \in 0..2 :
     \E b \in CellVertices(gdim), c \in CellVertices(gdim) :
       /\ (dim = 1 \/ dim = 2 \/ (b = c /\ facet = 0))
       /\ tri_call = [op |-> Pending, gdim |-> gdim, dim |-> dim, facet |-> facet,
                      v |-> << <<0, 0, 0>>, b, c >>, e |-> Unwritten,
                      result |-> Pending]
  /\ mesh = Idle /\ shared = Idle /\ btype = Idle /\ boundary = Idle /\ error = Idle
  /\ reorder_call = Idle
  /\ query = Idle
  /\ topo_call = Idle /\ index = Idle /\ csg = Idle /\ editor = Idle /\ sax = Idle

CellCall(op, result) ==
  /\ tri_call.op = Pending
  /\ tri_call' = [tri_call EXCEPT !.op = op, !.result = result]
  /\ UNCHANGED cellOthers

\* TriangleCell::num_entities(dim)
NumEntitiesCall ==
  /\ tri_call.op = Pending
  /\ CellCall("num_entities", num_entities(tri_call.dim))

\* TriangleCell::num_vertices(dim)
NumVerticesCall ==
  /\ tri_call.op = Pending
  /\ CellCall("num_vertices", num_vertices(tri_call.dim))

\* TriangleCell::create_entities(e, dim, v)
CreateEntitiesCall ==
  /\ tri_call.op = Pending
  /\ LET r == create_entities_of(tri_call.e, tri_call.dim, <<0, 1, 2>>)
     IN  tri_call' = [tri_call EXCEPT !.op = "create_entities", !.e = r.e,
                                      !.result = [error |-> r.error]]
  /\ UNCHANGED cellOthers

\* TriangleCell::volume(triangle)
VolumeCall ==
  /\ tri_call.dim <= 2
  /\ CellCall("volume", volume(tri_call.dim, tri_call.gdim,
                            Coordinates(tri_call.gdim, At(tri_call.v, 0)),
                            Coordinates(tri_call.gdim, At(tri_call.v, 1)),
                            Coordinates(tri_call.gdim, At(tri_call.v, 2))))

\* TriangleCell::diameter(triangle)
DiameterCall ==
  /\ tri_call.dim <= 2
  /\ CellCall("diameter", diameter(tri_call.dim, tri_call.gdim, At(tri_call.v, 0),
                                At(tri_call.v, 1), At(tri_call.v, 2)))

\* TriangleCell::radius_ratio(triangle)
RadiusRatioCall ==
  /\ tri_call.dim = 2
  /\ CellCall("radius_ratio", radius_ratio(tri_call.dim, tri_call.gdim, tri_call.v))

\* TriangleCell::normal(cell, facet)
NormalCall ==
  /\ tri_call.dim = 2
  /\ CellCall("normal", normal(tri_call.gdim, tri_call.v, tri_call.facet))

\* TriangleCell::cell_normal(cell)
CellNormalCall ==
  /\ tri_call.dim = 2
  /\ CellCall("cell_normal", cell_normal(tri_call.gdim, tri_call.v))

NextCell ==
  \/ NumEntitiesCall
  \/ NumVerticesCall
  \/ CreateEntitiesCall
  \/ VolumeCall
  \/ DiameterCall
  \/ RadiusRatioCall
  \/ NormalCall
  \/ CellNormalCall

SpecCell == InitCell /\ [][NextCell]_vars

\* The three vertices of the cell lie on one line or coincide: its area
\* is 0.
ZeroVolume == Cross(Sub(At(tri_call.v, 1), At(tri_call.v, 0)),
                    Sub(At(tri_call.v, 2), At(tri_call.v, 0))) = <<0, 0, 0>>

\* C16: a triangle has 3, 3, 1 entities of dimension 0, 1, 2 and an entity
\* of dimension 0, 1, 2 has 1, 2, 3 vertices; any other dimension raises
\* the error.  create_entities for a dimension other than 1 raises the
\* error and writes nothing to the output array, and for dimension 1 it
\* raises none.
C16_CountsAndCreation ==
  /\ tri_call.op = "num_entities" =>
       tri_call.result = (IF tri_call.dim <= 2
                          THEN Returned(At(<<3, 3, 1>>, tri_call.dim)) ELSE Raised)
  /\ tri_call.op = "num_vertices" =>
       tri_call.result = (IF tri_call.dim <= 2
                          THEN Returned(At(<<1, 2, 3>>, tri_call.dim)) ELSE Raised)
  /\ tri_call.op = "create_entities" =>
       /\ tri_call.result.error <=> tri_call.dim # 1
       /\ tri_call.dim # 1 => tri_call.e = Unwritten

\* An illegal dimension was asked of num_vertices.
C16_Witness ==
  /\ tri_call.op = "num_vertices"
  /\ tri_call.dim = 3
  /\ tri_call.result.error

\* create_entities was refused for the cell dimension.
C16_WitnessCreate ==
  /\ tri_call.op = "create_entities"
  /\ tri_call.dim = 2
  /\ tri_call.result.error

\* C17: the diameter of a triangle of area 0 is the sentinel 0, and the
\* division by the area is never made with area 0.
C17_DiameterGuarded ==
  (tri_call.op = "diameter" /\ ~tri_call.result.error) =>
    /\ ZeroVolume => tri_call.result.value = Zero
    /\ tri_call.result.divisor # Zero

\* The diameter of a triangle of non-zero area is the quotient
\* a b c / (2 area), a number.
DiameterOfProperTriangle ==
  (tri_call.op = "diameter" /\ ~tri_call.result.error /\ ~ZeroVolume) =>
    /\ tri_call.result.value # NaN
    /\ tri_call.result.value # Infinity
    /\ FracLess(Zero, tri_call.result.value)

\* C18: the radius ratio of a triangle of area 0 is the sentinel 0, returned
\* before any facet length is computed; the quotient is evaluated only with
\* area non-zero, and then its denominator is non-zero.
C18_RadiusRatioGuarded ==
  (tri_call.op = "radius_ratio" /\ ~tri_call.result.error) =>
    /\ ZeroVolume => (tri_call.result.value.kind = "zero" /\ tri_call.result.areas = <<>>)
    /\ ~ZeroVolume => (/\ tri_call.result.value.kind = "quotient"
                       /\ tri_call.result.value.S2 # Zero
                       /\ \A k \in 1..3 : tri_call.result.value.abc2[k] > 0)

\* The radius ratio of a triangle with three vertices on a line was asked.
C18_Witness ==
  /\ tri_call.op = "radius_ratio"
  /\ ~tri_call.result.error
  /\ ZeroVolume
  /\ At(tri_call.v, 1) # At(tri_call.v, 2)
  /\ At(tri_call.v, 1) # At(tri_call.v, 0)
  /\ At(tri_call.v, 2) # At(tri_call.v, 0)

C19_WitnessDiameter ==
  /\ tri_call.op = "diameter"
  /\ tri_call.dim = 2
  /\ tri_call.gdim = 4
  /\ tri_call.result.error

-----------------------------------------------------------------------------
(* CSGCGALMeshGenerator2D, in a build with and in a build without CGAL.
   `csg` holds the build, whether a generator object exists, whether the
   configuration error was raised, and the calls made; `mesh` is the mesh
   handed to generate. *)

\* Most cells of a mesh handed to or made by the generator, and most calls
\* made in one run.
MaxCsgCells == 5

MaxCsgCalls == 5

\* The mesh of the fan of k triangles around vertex 0.
FanMesh(k) ==
  [num_vertices |-> IF k = 0 THEN 0 ELSE k + 2,
   cells |-> [c \in 1..k |-> <<0, c, c + 1>>]]

CsgMeshes == {FanMesh(k) : k \in 0..MaxCsgCells}

\* Faulty variant of the constructor: it succeeds in every build.
construct_always(has_cgal) == [generator |-> "constructed", error |-> FALSE]

\* CSGCGALMeshGenerator2D::CSGCGALMeshGenerator2D(geometry): with CGAL the
\* object is made; without it dolfin_error is raised and no object exists.
construct(has_cgal) ==
  IF has_cgal THEN [generator |-> "constructed", error |-> FALSE]
  ELSE [generator |-> "none", error |-> TRUE]

\* Faulty variant of generate: the mesh is cleared in every build before
\* the triangulation is written.
generate_cleared(has_cgal, m, triangulation) ==
  IF has_cgal THEN triangulation ELSE FanMesh(0)

\* CSGCGALMeshGenerator2D::generate(mesh): with CGAL the mesh is cleared
\* and rebuilt from the triangulation; without it the body is empty.
generate(has_cgal, m, triangulation) ==
  IF has_cgal THEN triangulation ELSE m

csgOthers == <<shared, btype, boundary, error, reorder_call, tri_call, query, topo_call, index, editor, sax>>

InitCsg ==
  /\ \E has_cgal \in BOOLEAN :
       csg = [has_cgal |-> has_cgal, generator |-> "none", error |-> FALSE,
              op |-> Pending, calls |-> 0]
  /\ mesh \in CsgMeshes
  /\ shared = Idle /\ btype = Idle /\ boundary = Idle /\ error = Idle
  /\ reorder_call = Idle /\ tri_call = Idle
  /\ query = Idle
  /\ topo_call = Idle /\ index = Idle /\ editor = Idle /\ sax = Idle

\* CSGCGALMeshGenerator2D generator(geometry)
Construct ==
  /\ csg.calls < MaxCsgCalls
  /\ csg.generator = "none"
  /\ LET r == construct(csg.has_cgal)
     IN  csg' = [csg EXCEPT !.op = "construct", !.calls = @ + 1,
                            !.generator = r.generator, !.error = r.error]
  /\ UNCHANGED mesh
  /\ UNCHANGED csgOthers

\* generator.generate(mesh).  With CGAL the receiver is the constructed
\* object.  Without CGAL the constructor makes none, and the body is taken
\* for any receiver.
Generate ==
  /\ csg.calls < MaxCsgCalls
  /\ csg.has_cgal => csg.generator = "constructed"
  /\ \E triangulation \in CsgMeshes \ {FanMesh(0)} :
       mesh' = generate(csg.has_cgal, mesh, triangulation)
  /\ csg' = [csg EXCEPT !.op = "generate", !.calls = @ + 1]
  /\ UNCHANGED csgOthers

NextCsg ==
  \/ Construct
  \/ Generate

SpecCsg == InitCsg /\ [][NextCsg]_vars

\* C20: in a build without CGAL the constructor of the generator raises the
\* configuration error and makes no generator, and no step, generate
\* included, changes the mesh.
C20_NoCgalFailsAtEntry ==
  [][~csg.has_cgal =>
       /\ mesh' = mesh
       /\ csg'.op = "construct" => (csg'.error /\ csg'.generator = "none")]_vars

\* Without CGAL, generate was called on a mesh with cells after the
\* constructor had raised the error.
C20_Witness ==
  /\ ~csg.has_cgal
  /\ csg.op = "generate"
  /\ csg.error
  /\ mesh.cells # <<>>

-----------------------------------------------------------------------------
(* The two producers of meshes, compute_boundary and
   CSGCGALMeshGenerator2D::generate, and the MeshEditor they drive.  The
   producer's calls of the editor are taken one per step; `editor` holds
   the calls still to make and what the editor has been told so far. *)

EditorCall(op, arg) == [op |-> op, arg |-> arg]

\* BoundaryComputation.cpp 119-132: the add_vertex calls of the loop over
\* the vertices of the parent mesh.
RECURSIVE BoundaryAddVertexCalls(_, _, _)
BoundaryAddVertexCalls(m, bv, v) ==
  IF v >= Len(m.coords) THEN <<>>
  ELSE IF At(bv, v) # Len(m.coords)
       THEN <<EditorCall("add_vertex", At(bv, v))>> \o BoundaryAddVertexCalls(m, bv, v + 1)
       ELSE BoundaryAddVertexCalls(m, bv, v + 1)

\* BoundaryComputation.cpp 140-159: the add_cell calls of the second loop
\* over the facets.
RECURSIVE BoundaryAddCellCalls(_, _, _, _)
BoundaryAddCellCalls(m, st, f, current_cell) ==
  IF f >= Len(m.facets) THEN <<>>
  ELSE IF At(st.boundary_facet, f)
       THEN <<EditorCall("add_cell", current_cell)>>
            \o BoundaryAddCellCalls(m, st, f + 1, current_cell + 1)
       ELSE BoundaryAddCellCalls(m, st, f + 1, current_cell)

\* The calls compute_boundary makes of its editor, in order; m is the mesh
\* after mesh.init(D - 1, D).
compute_boundary_calls(m, sh, type) ==
  LET exterior == (type # "interior")
      interior == (type # "exterior")
      nv == Len(m.coords)
      st == MarkFacets(m, sh, exterior, interior, 0,
              [boundary_vertices     |-> [v \in 1..nv |-> nv],
               num_boundary_vertices |-> 0,
               num_boundary_cells    |-> 0,
               boundary_facet        |-> [f \in 1..Len(m.facets) |-> FALSE]])
  IN  <<EditorCall("open", 0),
        EditorCall("init_vertices", st.num_boundary_vertices),
        EditorCall("init_cells", st.num_boundary_cells)>>
      \o BoundaryAddVertexCalls(m, st.boundary_vertices, 0)
      \o BoundaryAddCellCalls(m, st, 0, 0)
      \o <<EditorCall("close", 0)>>

\* CSGCGALMeshGenerator2D.cpp 456-465: the count of the faces in the domain.
RECURSIVE CountCells(_, _)
CountCells(faces, k) ==
  IF k > Len(faces) THEN 0
  ELSE (IF faces[k] THEN 1 ELSE 0) + CountCells(faces, k + 1)

\* Faulty variant of GenerateAddCellCalls: every finite face is added.
RECURSIVE GenerateAddAllCellCalls(_, _, _)
GenerateAddAllCellCalls(faces, k, cell_index) ==
  IF k > Len(faces) THEN <<>>
  ELSE <<EditorCall("add_cell", cell_index)>>
       \o GenerateAddAllCellCalls(faces, k + 1, cell_index + 1)

\* CSGCGALMeshGenerator2D.cpp 496-508: the add_cell calls of the loop over
\* the finite faces.
RECURSIVE GenerateAddCellCalls(_, _, _)
GenerateAddCellCalls(faces, k, cell_index) ==
  IF k > Len(faces) THEN <<>>
  ELSE IF faces[k]
       THEN <<EditorCall("add_cell", cell_index)>>
            \o GenerateAddCellCalls(faces, k + 1, cell_index + 1)
       ELSE GenerateAddCellCalls(faces, k + 1, cell_index)

\* The calls generate makes of its editor, in order; cdt is the refined
\* triangulation: its number of finite vertices and, for each finite face,
\* whether it is in the domain.
generate_calls(cdt) ==
  <<EditorCall("open", 0),
    EditorCall("init_vertices", cdt.num_vertices),
    EditorCall("init_cells", CountCells(cdt.faces, 1))>>
  \o [vertex_index \in 1..cdt.num_vertices |-> EditorCall("add_vertex", vertex_index - 1)]
  \o GenerateAddCellCalls(cdt.faces, 1, 0)
  \o <<EditorCall("close", 0)>>

\* Most finite vertices and most finite faces of a triangulation.
MaxCdtVertices == 3

MaxCdtFaces == 3

Triangulations ==
  {[num_vertices |-> n, faces |-> fs] :
     n \in 1..MaxCdtVertices,
     fs \in UNION {[1..k -> BOOLEAN] : k \in 0..MaxCdtFaces}}

\* A MeshEditor that has not been opened.
NewEditor(producer, calls) ==
  [producer |-> producer, calls |-> calls,
   open |-> FALSE, closed |-> FALSE,
   num_vertices |-> Unset, num_cells |-> Unset,
   vertices |-> <<>>, cells |-> <<>>, refused |-> 0]

editorOthers ==
  <<mesh, shared, btype, boundary, error, reorder_call, tri_call, query, topo_call, index, csg, sax>>

InitEditor ==
  /\ \/ /\ \E b \in DOMAIN BaseMeshes, pe \in {<<1, 2, 3>>, <<3, 1, 2>>} :
             mesh = MeshInitFacetCell(InputMesh(b, pe, <<1, 2, 3>>))
        /\ shared \in {S \in SUBSET LocalBoundaryKeys(mesh) : Cardinality(S) <= MaxShared}
        /\ btype \in BoundaryTypes
        /\ editor = NewEditor("compute_boundary", compute_boundary_calls(mesh, shared, btype))
     \/ /\ mesh \in Triangulations
        /\ shared = Idle /\ btype = Idle
        /\ editor = NewEditor("generate", generate_calls(mesh))
  /\ boundary = Idle /\ error = Idle
  /\ reorder_call = Idle /\ tri_call = Idle
  /\ query = Idle
  /\ topo_call = Idle /\ index = Idle /\ csg = Idle /\ sax = Idle

\* The next call of the producer is op.
NextCallIs(op) == editor.calls # <<>> /\ Head(editor.calls).op = op

\* MeshEditor::open(mesh, ...)
EditorOpen ==
  /\ NextCallIs("open")
  /\ editor' = [editor EXCEPT !.calls = Tail(@), !.open = TRUE, !.closed = FALSE,
                              !.num_vertices = Unset, !.num_cells = Unset,
                              !.vertices = <<>>, !.cells = <<>>]
  /\ UNCHANGED editorOthers

\* MeshEditor::init_vertices(num_vertices)
EditorInitVertices ==
  /\ NextCallIs("init_vertices")
  /\ editor' = [editor EXCEPT !.calls = Tail(@),
                              !.num_vertices = Head(editor.calls).arg]
  /\ UNCHANGED editorOthers

\* MeshEditor::init_cells(num_cells)
EditorInitCells ==
  /\ NextCallIs("init_cells")
  /\ editor' = [editor EXCEPT !.calls = Tail(@),
                              !.num_cells = Head(editor.calls).arg]
  /\ UNCHANGED editorOthers

\* The editor takes additions while it is open and both counts are set.
Accepting == editor.open /\ editor.num_vertices # Unset /\ editor.num_cells # Unset

\* MeshEditor::add_vertex(index, p): `vertices` lists the indices added, in
\* the order of the calls; a call the editor cannot take is counted.
EditorAddVertex ==
  /\ NextCallIs("add_vertex")
  /\ LET i == Head(editor.calls).arg
     IN  IF Accepting /\ i >= 0 /\ i < editor.num_vertices
         THEN editor' = [editor EXCEPT !.calls = Tail(@), !.vertices = Append(@, i)]
         ELSE editor' = [editor EXCEPT !.calls = Tail(@), !.refused = @ + 1]
  /\ UNCHANGED editorOthers

\* MeshEditor::add_cell(c, v0, v1, v2)
EditorAddCell ==
  /\ NextCallIs("add_cell")
  /\ LET c == Head(editor.calls).arg
     IN  IF Accepting /\ c >= 0 /\ c < editor.num_cells
         THEN editor' = [editor EXCEPT !.calls = Tail(@), !.cells = Append(@, c)]
         ELSE editor' = [editor EXCEPT !.calls = Tail(@), !.refused = @ + 1]
  /\ UNCHANGED editorOthers

\* MeshEditor::close()
EditorClose ==
  /\ NextCallIs("close")
  /\ editor' = [editor EXCEPT !.calls = Tail(@), !.open = FALSE, !.closed = TRUE]
  /\ UNCHANGED editorOthers

NextEditor ==
  \/ EditorOpen
  \/ EditorInitVertices
  \/ EditorInitCells
  \/ EditorAddVertex
  \/ EditorAddCell
  \/ EditorClose

SpecEditor == InitEditor /\ [][NextEditor]_vars

\* C21: both producers open the editor, set the number of vertices, then the
\* number of cells, add the vertices, add the cells and close.  No addition
\* is made before the counts are set or after the close, no index is added
\* twice, cells are added in increasing order of index, no vertex is added
\* once a cell has been, and at the close every vertex index below the
\* declared number of vertices and every cell index below the declared
\* number of cells has been added.
C21_BuilderOrder ==
  /\ editor.refused = 0
  /\ editor.num_cells # Unset => editor.num_vertices # Unset
  /\ (editor.num_vertices # Unset \/ editor.closed) => (editor.open \/ editor.closed)
  /\ Injective(editor.vertices)
  /\ \A k \in DOMAIN editor.cells : editor.cells[k] = k - 1
  /\ editor.cells # <<>> => Range(editor.vertices) = 0..(editor.num_vertices - 1)
  /\ editor.closed =>
       /\ editor.calls = <<>>
       /\ Range(editor.vertices) = 0..(editor.num_vertices - 1)
       /\ Len(editor.cells) = editor.num_cells

\* compute_boundary has closed the editor on a boundary of several cells.
C21_Witness ==
  /\ editor.producer = "compute_boundary"
  /\ editor.closed
  /\ editor.num_cells >= 2
  /\ shared # {}

\* generate has closed the editor on a triangulation with a face outside
\* the domain and a face inside it.
C21_WitnessGenerate ==
  /\ editor.producer = "generate"
  /\ editor.closed
  /\ editor.num_cells >= 1
  /\ editor.num_cells < Len(mesh.faces)

-----------------------------------------------------------------------------
(* TriangleCell::order on one cell whose vertices, edges and edge vertices
   are listed in any order, under any global numbering of its vertices. *)

\* The two orders of the vertices of an edge.
Flips == {<<1, 2>>, <<2, 1>>}

\* The mesh of one cell with its three edges: the cell lists its vertices
\* in order pv and its edges in order pf; edge k lists its vertices in
\* order fl[k].
OneCellMesh(pv, pf, fl, l2g) ==
  [ctype       |-> "triangle",
   gdim        |-> 2,
   coords      |-> BaseMeshes[1].coords,
   cells       |-> << Permute(<<0, 1, 2>>, pv) >>,
   facets      |-> [k \in 1..3 |->
                      [i \in 1..2 |-> create_entities(<<0, 1, 2>>)[k][fl[k][i]]]],
   cell_facets |-> << Permute(<<0, 1, 2>>, pf) >>,
   facet_cells |-> <<>>,
   derived     |-> [pr \in DerivedPairs |-> <<>>],
   l2g         |-> l2g,
   ordered     |-> FALSE]

orderCellOthers ==
  <<shared, btype, boundary, error, reorder_call, tri_call, query, index, csg, editor, sax>>

InitOrderCell ==
  /\ \E pv \in Perm3, pf \in Perm3, fl \in [1..3 -> Flips], pg \in Perm3 :
       mesh = OneCellMesh(pv, pf, fl, [v \in 1..3 |-> pg[v] - 1])
  /\ topo_call = [op |-> Pending]
  /\ shared = Idle /\ btype = Idle /\ boundary = Idle /\ error = Idle
  /\ reorder_call = Idle /\ tri_call = Idle
  /\ query = Idle
  /\ index = Idle /\ csg = Idle /\ editor = Idle /\ sax = Idle

\* cell.order(local_to_global_vertex_indices) on cell 0
OrderCell ==
  /\ topo_call.op = Pending
  /\ mesh' = order_cell(mesh, 0)
  /\ topo_call' = [op |-> "order_cell"]
  /\ UNCHANGED orderCellOthers

NextOrderCell == OrderCell

SpecOrderCell == InitOrderCell /\ [][NextOrderCell]_vars

\* The entries of s ascend strictly in global index.
Ascending(s) ==
  \A i, j \in DOMAIN s : i < j => At(mesh.l2g, s[i]) < At(mesh.l2g, s[j])

\* C22: after TriangleCell::order the vertices of the cell ascend in global
\* index, the two vertices of each edge of the cell ascend in global index,
\* and for i = 0, 1, 2 edge i of the cell does not contain vertex i of the
\* cell.
C22_OrderPostcondition ==
  topo_call.op = "order_cell" =>
    /\ Ascending(At(mesh.cells, 0))
    /\ \A i \in 0..2 :
         /\ Ascending(At(mesh.facets, At(At(mesh.cell_facets, 0), i)))
         /\ At(At(mesh.cells, 0), i) \notin Range(At(mesh.facets, At(At(mesh.cell_facets, 0), i)))
    /\ Range(At(mesh.cell_facets, 0)) = {0, 1, 2}
    /\ Range(At(mesh.cells, 0)) = {0, 1, 2}

\* The cell was ordered under a numbering that reverses vertices 0 and 2
\* of the cell.
C22_Witness ==
  /\ topo_call.op = "order_cell"
  /\ At(mesh.l2g, 0) > At(mesh.l2g, 2)
  /\ At(mesh.cells, 0) # <<0, 1, 2>>

-----------------------------------------------------------------------------
(* TriangleCell::normal(cell, facet) on the cells of a mesh, whose edges may
   have been created before the call or are created by it, and which may
   have been ordered. *)

\* Faulty variant of facet_normal: the opposite vertex is taken at the
\* position after the facet's.
facet_normal_next_vertex(m, c, facet) ==
  LET m1 == mesh_init(m, 2, 1)
      f  == At(At(m1.cell_facets, c), facet)
      p0 == At(m1.coords, At(At(m1.cells, c), (facet + 1) % 3))
      p1 == At(m1.coords, At(At(m1.facets, f), 0))
      p2 == At(m1.coords, At(At(m1.facets, f), 1))
      t  == Sub(p2, p1)
      n  == Sub(p2, p0)
  IN  IF m1.gdim # 2 THEN Raised
      ELSE IF SquaredNorm(t) = 0 THEN Returned([kind |-> "nan"])
      ELSE Returned(Normalized(Sub(Scale(SquaredNorm(t), n), Scale(Dot(n, t), t))))

\* TriangleCell::normal(cell, facet) for cell c of mesh m: the edge is
\* cell.entities(1)[facet] after mesh.init(2, 1), the opposite vertex
\* cell.entities(0)[facet]; n = (p2 - p0) minus its projection onto
\* t = (p2 - p1)/|p2 - p1|, normalized; the direction is given scaled by
\* |p2 - p1|^2.
facet_normal(m, c, facet) ==
  LET m1 == mesh_init(m, 2, 1)
      f  == At(At(m1.cell_facets, c), facet)
      p0 == At(m1.coords, At(At(m1.cells, c), facet))
      p1 == At(m1.coords, At(At(m1.facets, f), 0))
      p2 == At(m1.coords, At(At(m1.facets, f), 1))
      t  == Sub(p2, p1)
      n  == Sub(p2, p0)
  IN  IF m1.gdim # 2 THEN Raised
      ELSE IF SquaredNorm(t) = 0 THEN Returned([kind |-> "nan"])
      ELSE Returned(Normalized(Sub(Scale(SquaredNorm(t), n), Scale(Dot(n, t), t))))

\* Vertex coordinates of the one-cell meshes run over 0..NormalMax.
NormalMax == 2

\* The mesh with the given vertex coordinates and cells and nothing else
\* computed.
PlainMesh(gdim, coords, cells, l2g) ==
  [ctype       |-> "triangle",
   gdim        |-> gdim,
   coords      |-> coords,
   cells       |-> cells,
   facets      |-> <<>>,
   cell_facets |-> <<>>,
   facet_cells |-> <<>>,
   derived     |-> [pr \in DerivedPairs |-> <<>>],
   l2g         |-> l2g,
   ordered     |-> FALSE]

\* One cell with a vertex at the origin and two on the lattice, its
\* vertices listed in any order; the square of two cells and the folded
\* surface in R^3, the vertices of the first cell listed in any order.
NormalMeshes ==
  {PlainMesh(2, << <<0, 0, 0>>, <<bx, by, 0>>, <<cx, cy, 0>> >>, << pv >>, l2g) :
     bx \in 0..NormalMax, by \in 0..NormalMax, cx \in 0..NormalMax, cy \in 0..NormalMax,
     pv \in {[i \in 1..3 |-> pm[i] - 1] : pm \in Perm3},
     l2g \in GlobalIndices(3)}
  \cup
  {TopologyMesh(b, pe, <<1, 2, 3>>, l2g) :
     b \in {2, 6}, pe \in Perm3, l2g \in GlobalIndices(4)}

normalOthers ==
  <<shared, btype, boundary, error, reorder_call, query, topo_call, index, csg, editor, sax>>

InitNormal ==
  /\ mesh \in NormalMeshes
  /\ tri_call = [op |-> Pending]
  /\ shared = Idle /\ btype = Idle /\ boundary = Idle /\ error = Idle
  /\ reorder_call = Idle
  /\ query = Idle
  /\ topo_call = Idle /\ index = Idle /\ csg = Idle /\ editor = Idle /\ sax = Idle

\* mesh.init(1) before the normal is asked
NormalInitEdges ==
  /\ tri_call.op = Pending
  /\ mesh.facets = <<>>
  /\ mesh' = mesh_init_entities(mesh, 1)
  /\ UNCHANGED tri_call
  /\ UNCHANGED normalOthers

\* mesh.order() before the normal is asked
NormalOrder ==
  /\ tri_call.op = Pending
  /\ ~mesh.ordered
  /\ mesh' = order(mesh)
  /\ UNCHANGED tri_call
  /\ UNCHANGED normalOthers

\* cell.normal(facet) for cell c
FacetNormal(c, facet) ==
  /\ tri_call.op = Pending
  /\ mesh' = mesh_init(mesh, 2, 1)
  /\ tri_call' = [op |-> "normal", cell |-> c, facet |-> facet,
                  result |-> facet_normal(mesh, c, facet)]
  /\ UNCHANGED normalOthers

NextNormal ==
  \/ NormalInitEdges
  \/ NormalOrder
  \/ \E c \in 0..(Len(mesh.cells) - 1), facet \in 0..2 : FacetNormal(c, facet)

SpecNormal == InitNormal /\ [][NextNormal]_vars

\* The points of the cell and facet of the call.
NormalCellPoints == {At(mesh.coords, v) : v \in Range(At(mesh.cells, tri_call.cell))}

NormalFacetPoints ==
  {At(mesh.coords, v) :
     v \in Range(At(mesh.facets, At(At(mesh.cell_facets, tri_call.cell), tri_call.facet)))}

NormalCellNonDegenerate ==
  \E p, q, r \in NormalCellPoints : Cross(Sub(q, p), Sub(r, p)) # <<0, 0, 0>>

\* C24: for a non-degenerate triangle in R^2 and every local facet, the
\* vertex cell.entities(0)[facet] is not an endpoint of the edge
\* cell.entities(1)[facet], and normal returns a vector of unit length that
\* is orthogonal to the edge and has a positive dot product with x - p_opp
\* for every point x of the facet, p_opp being the vertex of the cell that
\* is not on the facet.
C24_NormalOutward ==
  (tri_call.op = "normal" /\ mesh.gdim = 2 /\ NormalCellNonDegenerate) =>
    /\ At(mesh.coords, At(At(mesh.cells, tri_call.cell), tri_call.facet)) \notin NormalFacetPoints
    /\ ~tri_call.result.error
    /\ tri_call.result.value.kind = "unit"
    /\ \A x \in NormalFacetPoints, y \in NormalFacetPoints :
         Dot(tri_call.result.value.direction, Sub(x, y)) = 0
    /\ \A x \in NormalFacetPoints, o \in NormalCellPoints \ NormalFacetPoints :
         Dot(tri_call.result.value.direction, Sub(x, o)) > 0

\* The normal of a facet of an obtuse triangle was asked after the mesh was
\* ordered under the reversed numbering.
C24_Witness ==
  /\ tri_call.op = "normal"
  /\ mesh.gdim = 2
  /\ mesh.ordered
  /\ At(mesh.l2g, 0) > At(mesh.l2g, 1)
  /\ \E p, q, r \in NormalCellPoints : Dot(Sub(q, p), Sub(r, p)) < 0

-----------------------------------------------------------------------------
(* mark_domains of CSGCGALMeshGenerator2D.cpp: the flood fill over the faces
   of a constrained triangulation.  In this part `csg` holds the
   triangulation (its faces, the infinite ones included, as vertex triples,
   and its constrained edges as vertex pairs), the status of every face,
   the face queue, the border list and the position in the two functions.
   `level`, `assigned` and `expanded` record for every face the index it
   was marked with and how often it was marked and expanded, `skipped` how
   often a face taken from the queue was marked already. *)

\* The infinite vertex.
Infinite == 99

\* One triangle; a square of two triangles; a triangle inside a triangle,
\* the ring between them cut into six triangles.  The faces incident to the
\* infinite vertex come last, and the first of them is infinite_face().
CdtFaces ==
  << << <<0, 1, 2>>,
        <<0, 1, Infinite>>, <<1, 2, Infinite>>, <<2, 0, Infinite>> >>,
     << <<0, 1, 2>>, <<0, 2, 3>>,
        <<0, 1, Infinite>>, <<1, 2, Infinite>>, <<2, 3, Infinite>>, <<3, 0, Infinite>> >>,
     << <<3, 4, 5>>,
        <<0, 1, 3>>, <<1, 4, 3>>, <<1, 2, 4>>, <<2, 5, 4>>, <<2, 0, 5>>, <<0, 3, 5>>,
        <<0, 1, Infinite>>, <<1, 2, Infinite>>, <<2, 0, Infinite>> >> >>

\* The vertices of the edge of face fh opposite its vertex i: CDT::Edge(fh, i).
EdgeOf(faces, fh, i) == Range(At(faces, fh)) \ {At(At(faces, fh), i)}

\* The finite edges: only these can be constrained.
FiniteEdges(faces) ==
  {e \in {EdgeOf(faces, fh, i) : fh \in 0..(Len(faces) - 1), i \in 0..2} : Infinite \notin e}

\* fh->neighbor(i): the other face on the edge opposite vertex i.
neighbor(faces, fh, i) ==
  CHOOSE n \in 0..(Len(faces) - 1) : n # fh /\ EdgeOf(faces, fh, i) \subseteq Range(At(faces, n))

\* cdt.infinite_face()
infinite_face(faces) ==
  CHOOSE f \in 0..(Len(faces) - 1) :
    /\ Infinite \in Range(At(faces, f))
    /\ \A g \in 0..(f - 1) : Infinite \notin Range(At(faces, g))

\* The remainder of the division of ints, which takes the sign of a.
Remainder(a, b) == IF a >= 0 THEN a % b ELSE -((-a) % b)

\* Enriched_face_base_2::is_in_domain
is_in_domain(status) == Remainder(status, 2) = 1

\* Enriched_face_base_2::set_in_domain(b): the new status.
set_in_domain(b) == IF b THEN 1 ELSE 0

\* Faulty variant of BorderIndex: the index of the face on the near side is
\* passed on as it is.
BorderIndexSame(counter) == counter

\* The index given to the faces behind a border edge,
\* e.first->counter() + 1.
BorderIndex(counter) == counter + 1

\* Faulty variant of Unmarked: every face taken from the queue is marked.
UnmarkedAlways(counter) == TRUE

\* The test fh->counter() == -1 on a face taken from the queue.
Unmarked(counter) == counter = -1

markOthers ==
  <<mesh, shared, btype, boundary, error, reorder_call, tri_call, query, topo_call, index, editor, sax>>

\* A triangulation with any set of its finite edges constrained; the faces
\* are as constructed (status -1) or carry the flags of an earlier marking.
InitMark ==
  /\ \E t \in DOMAIN CdtFaces, old \in {-1, 0, 1} :
     \E constrained \in SUBSET FiniteEdges(CdtFaces[t]) :
       csg = [faces |-> CdtFaces[t], constrained |-> constrained,
              status |-> [f \in DOMAIN CdtFaces[t] |-> old],
              level |-> [f \in DOMAIN CdtFaces[t] |-> Unset],
              assigned |-> [f \in DOMAIN CdtFaces[t] |-> 0],
              expanded |-> [f \in DOMAIN CdtFaces[t] |-> 0],
              queue |-> <<>>, border |-> <<>>, skipped |-> 0,
              index |-> 0, level_index |-> 0, pc |-> "reset"]
  /\ mesh = Idle /\ shared = Idle /\ btype = Idle /\ boundary = Idle /\ error = Idle
  /\ reorder_call = Idle /\ tri_call = Idle
  /\ query = Idle
  /\ topo_call = Idle /\ index = Idle /\ editor = Idle /\ sax = Idle

\* mark_domains(cdt), lines 329-332: every counter is set to -1.
ResetCounters ==
  /\ csg.pc = "reset"
  /\ csg' = [csg EXCEPT !.status = [f \in DOMAIN csg.faces |-> -1],
                        !.pc = "call", !.index = 0, !.level_index = 0,
                        !.queue = <<infinite_face(csg.faces)>>]
  /\ UNCHANGED markOthers

\* mark_domains(ct, start, index, border), lines 297-301; `queue` holds
\* start from the call on.
EnterFill ==
  /\ csg.pc = "call"
  /\ IF At(csg.status, Head(csg.queue)) # -1
     THEN csg' = [csg EXCEPT !.queue = <<>>, !.pc = "border"]
     ELSE csg' = [csg EXCEPT !.pc = "fill"]
  /\ UNCHANGED markOthers

\* The edges (fh, i) and neighbours n of fh with n->counter() == -1, for
\* i = 0, 1, 2 from position i on.
RECURSIVE Pushes(_, _, _)
Pushes(c, fh, i) ==
  IF i >= 3 THEN [border |-> <<>>, queue |-> <<>>]
  ELSE LET n == neighbor(c.faces, fh, i)
           rest == Pushes(c, fh, i + 1)
       IN  IF At(c.status, n) = -1
           THEN IF EdgeOf(c.faces, fh, i) \in c.constrained
                THEN [border |-> << <<fh, i>> >> \o rest.border, queue |-> rest.queue]
                ELSE [border |-> rest.border, queue |-> <<n>> \o rest.queue]
           ELSE rest

\* One turn of the loop of lines 303-321 on a face that is marked: the
\* counter is set to index, set_in_domain overwrites it, and the unmarked
\* neighbours go to the queue or their edges to the border list.
ExpandFace ==
  /\ csg.pc = "fill"
  /\ csg.queue # <<>>
  /\ Unmarked(At(csg.status, Head(csg.queue)))
  /\ LET fh == Head(csg.queue)
         marked == [csg EXCEPT !.status[fh + 1] = set_in_domain(Remainder(csg.index, 2) = 1)]
         p == Pushes(marked, fh, 0)
     IN  csg' = [marked EXCEPT !.queue = Tail(csg.queue) \o p.queue,
                               !.border = csg.border \o p.border,
                               !.level[fh + 1] = csg.level_index,
                               !.assigned[fh + 1] = @ + 1,
                               !.expanded[fh + 1] = @ + 1]
  /\ UNCHANGED markOthers

\* One turn of the loop on a face that has been marked since it was queued.
SkipFace ==
  /\ csg.pc = "fill"
  /\ csg.queue # <<>>
  /\ ~Unmarked(At(csg.status, Head(csg.queue)))
  /\ csg' = [csg EXCEPT !.queue = Tail(@), !.skipped = @ + 1]
  /\ UNCHANGED markOthers

\* The queue is empty: mark_domains(ct, start, index, border) returns.
LeaveFill ==
  /\ csg.pc = "fill"
  /\ csg.queue = <<>>
  /\ csg' = [csg EXCEPT !.pc = "border"]
  /\ UNCHANGED markOthers

\* One turn of the loop of lines 337-343: the first border edge is taken
\* and the face behind it, when unmarked, is the start of the next fill.
PopBorder ==
  /\ csg.pc = "border"
  /\ csg.border # <<>>
  /\ LET e == Head(csg.border)
         n == neighbor(csg.faces, e[1], e[2])
     IN  IF At(csg.status, n) = -1
         THEN csg' = [csg EXCEPT !.border = Tail(@), !.queue = <<n>>, !.pc = "call",
                                 !.index = BorderIndex(At(csg.status, e[1])),
                                 !.level_index = At(csg.level, e[1]) + 1]
         ELSE csg' = [csg EXCEPT !.border = Tail(@)]
  /\ UNCHANGED markOthers

\* The border list is empty: mark_domains(cdt) returns.
MarkDone ==
  /\ csg.pc = "border"
  /\ csg.border = <<>>
  /\ csg' = [csg EXCEPT !.pc = "done"]
  /\ UNCHANGED markOthers

NextMark ==
  \/ ResetCounters
  \/ EnterFill
  \/ ExpandFace
  \/ SkipFace
  \/ LeaveFill
  \/ PopBorder
  \/ MarkDone

SpecMark == InitMark /\ [][NextMark]_vars

\* The loops of mark_domains run on: a step that can be taken is taken.
SpecMarkFair == SpecMark /\ WF_vars(NextMark)

MarkFaces == 0..(Len(csg.faces) - 1)

\* Faces f and g lie on the two sides of an edge that is not constrained.
Connected(f, g) ==
  \E i \in 0..2 : neighbor(csg.faces, f, i) = g /\ EdgeOf(csg.faces, f, i) \notin csg.constrained

\* C25: after mark_domains every face is in the domain exactly when the
\* level it was marked with is odd, the level being 0 for the faces filled
\* from the infinite face and one more than the level of the face on the
\* near side of the border edge through which the fill was entered; faces
\* on the two sides of an edge that is not constrained have the same flag,
\* no infinite face is in the domain, and a face with status -1 is not in
\* the domain.
C25_DomainIsOddLevel ==
  /\ \A f \in MarkFaces : At(csg.status, f) = -1 => ~is_in_domain(At(csg.status, f))
  /\ csg.pc = "done" =>
       /\ \A f \in MarkFaces :
            /\ At(csg.level, f) # Unset
            /\ is_in_domain(At(csg.status, f)) <=> (At(csg.level, f) % 2 = 1)
       /\ \A f, g \in MarkFaces :
            Connected(f, g) =>
              /\ is_in_domain(At(csg.status, f)) <=> is_in_domain(At(csg.status, g))
              /\ At(csg.level, f) = At(csg.level, g)
       /\ \A f \in MarkFaces :
            Infinite \in Range(At(csg.faces, f)) =>
              (At(csg.level, f) = 0 /\ ~is_in_domain(At(csg.status, f)))

\* The marking is done on the nested triangles with both loops constrained:
\* the ring is in the domain and the inner triangle, of level 2, is not.
C25_Witness ==
  /\ csg.pc = "done"
  /\ \E f \in MarkFaces : At(csg.level, f) = 2 /\ ~is_in_domain(At(csg.status, f))
  /\ \E f \in MarkFaces : At(csg.level, f) = 1 /\ is_in_domain(At(csg.status, f))

\* No face is marked or expanded twice, and a marked face stays marked.
MarkedOnce ==
  /\ \A f \in MarkFaces : At(csg.assigned, f) <= 1 /\ At(csg.expanded, f) <= 1
  /\ \A f \in MarkFaces :
       (csg.pc # "reset" /\ At(csg.assigned, f) = 1) => At(csg.status, f) # -1

\* C26: the flood fill terminates: no face is given a level twice or
\* expanded twice, a marked face is never unmarked, and the marking comes to
\* its end with the face queue and the border list empty.
C26_FillTerminates ==
  /\ []MarkedOnce
  /\ <>(csg.pc = "done" /\ csg.queue = <<>> /\ csg.border = <<>>)

\* A face was in the queue twice and has been expanded once; the second
\* entry has been taken from the queue, which is empty.
C26_Witness ==
  /\ csg.pc = "done"
  /\ csg.queue = <<>>
  /\ csg.border = <<>>
  /\ \A f \in MarkFaces : At(csg.expanded, f) = 1
  /\ csg.skipped > 0
  /\ csg.constrained # {}

-----------------------------------------------------------------------------
(* XMLLocalMeshSAX: the reader of mesh files driven by the start-element
   and end-element events of the XML parser.  `sax` holds the state of the
   reader, the elements that are open, the state the reader was in before
   each of them was opened, and what the read functions have stored. *)

\* The outcome of an event: the new state, the read function called, and
\* whether dolfin_error was raised.
Outcome(state, read, err) == [state |-> state, read |-> read, error |-> err]

\* Faulty variant of StartWhenDone: a second mesh is read.
StartWhenDoneReopens == Outcome("INSIDE_MESH", "read_mesh", FALSE)

\* start_element in state DONE (lines 319-323).
StartWhenDone == Outcome("DONE", "", TRUE)

\* XMLLocalMeshSAX::start_element(name, attrs, num_attributes)
start_element(state, name) ==
  CASE state = "OUTSIDE" ->
         IF name = "mesh" THEN Outcome("INSIDE_MESH", "read_mesh", FALSE)
         ELSE Outcome(state, "", FALSE)
    [] state = "INSIDE_MESH" ->
         IF name = "vertices" THEN Outcome("INSIDE_VERTICES", "read_vertices", FALSE)
         ELSE IF name = "cells" THEN Outcome("INSIDE_CELLS", "read_cells", FALSE)
         ELSE IF name = "data" THEN Outcome("INSIDE_DATA", "", FALSE)
         ELSE IF name = "domains" THEN Outcome("INSIDE_DOMAINS", "", FALSE)
         ELSE Outcome(state, "", FALSE)
    [] state = "INSIDE_VERTICES" ->
         IF name = "vertex" THEN Outcome(state, "read_vertex", FALSE)
         ELSE Outcome(state, "", FALSE)
    [] state = "INSIDE_CELLS" ->
         IF name = "interval" THEN Outcome(state, "read_interval", FALSE)
         ELSE IF name = "triangle" THEN Outcome(state, "read_triangle", FALSE)
         ELSE IF name = "tetrahedron" THEN Outcome(state, "read_tetrahedron", FALSE)
         ELSE Outcome(state, "", FALSE)
    [] state = "INSIDE_DATA" ->
         IF name = "meshfunction" THEN Outcome("INSIDE_MESH_FUNCTION", "", FALSE)
         ELSE IF name = "array" THEN Outcome("INSIDE_ARRAY", "", FALSE)
         ELSE IF name = "data_entry" THEN Outcome("INSIDE_DATA_ENTRY", "", FALSE)
         ELSE Outcome(state, "", FALSE)
    [] state = "INSIDE_DOMAINS" ->
         IF name = "mesh_value_collection"
         THEN Outcome("INSIDE_MESH_VALUE_COLLECTION", "read_mesh_value_collection", FALSE)
         ELSE Outcome(state, "", FALSE)
    [] state = "INSIDE_MESH_VALUE_COLLECTION" ->
         IF name = "value"
         THEN Outcome("INSIDE_MESH_VALUE_COLLECTION", "read_mesh_value_collection_entry", FALSE)
         ELSE Outcome(state, "", FALSE)
    [] state = "INSIDE_DATA_ENTRY" ->
         IF name = "array" THEN Outcome("INSIDE_ARRAY", "", FALSE)
         ELSE Outcome(state, "", FALSE)
    [] state = "DONE" -> StartWhenDone
    [] OTHER -> Outcome(state, "", TRUE)

\* The case INSIDE_ARRAY of end_element (lines 377-382), which the case
\* INSIDE_DATA_ENTRY runs into.
EndInsideArray(state, name) ==
  LET s1 == IF name = "array" THEN "INSIDE_DATA_ENTRY" ELSE state
  IN  IF name = "data_entry" THEN "INSIDE_DATA" ELSE s1

\* XMLLocalMeshSAX::end_element(name): the new state.
end_element(state, name) ==
  CASE state = "INSIDE_MESH" -> IF name = "mesh" THEN "DONE" ELSE state
    [] state = "INSIDE_VERTICES" -> IF name = "vertices" THEN "INSIDE_MESH" ELSE state
    [] state = "INSIDE_CELLS" -> IF name = "cells" THEN "INSIDE_MESH" ELSE state
    [] state = "INSIDE_DATA" -> IF name = "data" THEN "INSIDE_MESH" ELSE state
    [] state = "INSIDE_DOMAINS" -> IF name = "domains" THEN "INSIDE_MESH" ELSE state
    [] state = "INSIDE_MESH_VALUE_COLLECTION" ->
         IF name = "mesh_value_collection" THEN "INSIDE_DOMAINS" ELSE state
    [] state = "INSIDE_MESH_FUNCTION" ->
         IF name = "meshfunction" THEN "INSIDE_DATA" ELSE state
    [] state = "INSIDE_DATA_ENTRY" ->
         EndInsideArray(IF name = "data_entry" THEN "INSIDE_DATA" ELSE state, name)
    [] state = "INSIDE_ARRAY" -> EndInsideArray(state, name)
    [] OTHER -> state

\* Most calls of one read function in a file.
MaxRead == 2

\* The elements a file may hold inside an element: the mesh file format,
\* with its root element and room for a second element after the mesh.
Children(parent) ==
  CASE parent = "" -> {"dolfin"}
    [] parent = "dolfin" -> {"mesh", "function"}
    [] parent = "mesh" -> {"vertices", "cells", "data", "domains"}
    [] parent = "vertices" -> {"vertex"}
    [] parent = "cells" -> {"interval", "triangle", "tetrahedron"}
    [] parent = "data" -> {"meshfunction", "array", "data_entry"}
    [] parent = "data_entry" -> {"array"}
    [] parent = "domains" -> {"mesh_value_collection"}
    [] parent = "mesh_value_collection" -> {"value"}
    [] OTHER -> {}

\* The sections of a mesh named by the file format.
Sections ==
  {"vertices", "cells", "data", "domains", "meshfunction", "array", "data_entry",
   "mesh_value_collection"}

ReadFunctions ==
  {"read_mesh", "read_vertices", "read_vertex", "read_cells", "read_interval",
   "read_triangle", "read_tetrahedron", "read_mesh_value_collection",
   "read_mesh_value_collection_entry"}

saxOthers ==
  <<mesh, shared, btype, boundary, error, reorder_call, tri_call, query, topo_call, index, csg, editor>>

\* The reader as constructed, before the first event.
InitSax ==
  /\ sax = [state |-> "OUTSIDE", open |-> <<>>, before |-> <<>>, closed |-> FALSE,
            data |-> [r \in ReadFunctions |-> 0], error |-> FALSE,
            event |-> "", name |-> "", bare_array |-> FALSE]
  /\ mesh = Idle /\ shared = Idle /\ btype = Idle /\ boundary = Idle /\ error = Idle
  /\ reorder_call = Idle /\ tri_call = Idle
  /\ query = Idle
  /\ topo_call = Idle /\ index = Idle /\ csg = Idle /\ editor = Idle

\* The element that is open innermost, "" when none is.
Innermost == IF sax.open = <<>> THEN "" ELSE sax.open[Len(sax.open)]

\* sax_start_element: the parser meets the start tag of element name.
\* `bare_array` records that an array was opened directly inside data.
StartElement(name) ==
  /\ ~sax.error
  /\ ~sax.closed
  /\ name \in Children(Innermost)
  /\ LET o == start_element(sax.state, name)
     IN  /\ o.read # "" => sax.data[o.read] < MaxRead
         /\ sax' = [sax EXCEPT
                      !.state = o.state,
                      !.open = Append(@, name),
                      !.before = Append(@, sax.state),
                      !.data = IF o.read = "" THEN @ ELSE [@ EXCEPT ![o.read] = @ + 1],
                      !.error = o.error,
                      !.event = "start", !.name = name,
                      !.bare_array = @ \/ (name = "array" /\ Innermost = "data")]
  /\ UNCHANGED saxOthers

\* sax_end_element: the parser meets the end tag of the innermost open
\* element.
EndElement ==
  /\ ~sax.error
  /\ sax.open # <<>>
  /\ sax' = [sax EXCEPT
               !.state = end_element(sax.state, Innermost),
               !.open = SubSeq(@, 1, Len(@) - 1),
               !.before = SubSeq(@, 1, Len(@) - 1),
               !.closed = (Len(sax.open) = 1),
               !.event = "end", !.name = Innermost]
  /\ UNCHANGED saxOthers

NextSax ==
  \/ \E name \in Children(Innermost) : StartElement(name)
  \/ EndElement

SpecSax == InitSax /\ [][NextSax]_vars

\* The step is the end-element event of a section of the first mesh.
EndOfSection ==
  /\ sax'.event = "end"
  /\ Len(sax'.open) < Len(sax.open)
  /\ sax'.name \in Sections
  /\ sax.data["read_mesh"] = 1

\* C27: the end-element event of a section restores the state the reader
\* was in just before the start-element event of the section, and the end
\* of the mesh, read from state OUTSIDE on, takes the reader to DONE.
C27_StackDiscipline ==
  [][/\ EndOfSection => sax'.state = sax.before[Len(sax.before)]
     /\ (sax'.event = "end" /\ sax'.name = "mesh" /\ sax.before[Len(sax.before)] = "OUTSIDE")
          => sax'.state = "DONE"]_vars

\* The same for the files in which no array has been opened directly
\* inside data.
StackDisciplineWithoutBareArray ==
  [][~sax'.bare_array =>
       /\ EndOfSection => sax'.state = sax.before[Len(sax.before)]
       /\ (sax'.event = "end" /\ sax'.name = "mesh" /\ sax.before[Len(sax.before)] = "OUTSIDE")
            => sax'.state = "DONE"]_vars

\* C28: the reader enters DONE only by the end-element event of mesh taken
\* in state INSIDE_MESH; in DONE every event leaves the state and the mesh
\* data as they are, and a start-element event raises the error.
C28_DoneAbsorbing ==
  [][/\ (sax'.state = "DONE" /\ sax.state # "DONE") =>
          (sax'.event = "end" /\ sax'.name = "mesh" /\ sax.state = "INSIDE_MESH")
     /\ sax.state = "DONE" =>
          /\ sax'.state = "DONE"
          /\ sax'.data = sax.data
          /\ sax'.event = "start" => sax'.error]_vars

\* After the mesh a second mesh element was met: the error was raised in
\* state DONE.
C28_Witness ==
  /\ sax.state = "DONE"
  /\ sax.error
  /\ sax.name = "mesh"
  /\ sax.data["read_vertex"] > 0

\* The end of the root element was met in state DONE.
C28_WitnessEnd ==
  /\ sax.state = "DONE"
  /\ sax.closed
  /\ ~sax.error

-----------------------------------------------------------------------------
(* TriangleCell::refine_cell on the cells of a mesh whose edges exist: one
   cell with its edges listed in any order, and meshes of two and three
   cells with the edges as mesh.init(1) creates them.  The children are
   added through a MeshEditor opened for four cells per parent. *)

\* Faulty variant of find_edge: the edge is taken at position i.
find_edge_at_position(m, c, i) ==
  Returned(i)

\* TriangleCell::find_edge(i, cell): the first position j = 0, 1, 2 of an
\* edge of the cell that does not contain vertex i of the cell; an error
\* when there is none.
find_edge(m, c, i) ==
  LET v  == At(m.cells, c)
      e  == At(m.cell_facets, c)
      js == {j \in 0..2 : At(v, i) \notin Range(At(m.facets, At(e, j)))}
  IN  IF js = {} THEN Raised
      ELSE Returned(CHOOSE j \in js : \A k \in js : j <= k)

\* MeshEditor::add_cell(c, v0, v1, v2): the cell is recorded with its index,
\* in the order of the calls.
editor_add_cell(ed, c, vertices) ==
  [ed EXCEPT !.cells = Append(@, [index |-> c, vertices |-> vertices])]

\* TriangleCell::refine_cell(cell, editor, current_cell): the editor and
\* current_cell after the call, with the positions find_edge returned; an
\* error when find_edge fails.
refine_cell(m, c, ed) ==
  LET offset == Len(m.coords)
      v      == At(m.cells, c)
      e      == At(m.cell_facets, c)
      f      == [i \in 1..3 |-> find_edge(m, c, i - 1)]
  IN  IF \E i \in 1..3 : f[i].error THEN Raised
      ELSE
        LET v0 == At(v, 0)
            v1 == At(v, 1)
            v2 == At(v, 2)
            e0 == offset + At(e, f[1].value)
            e1 == offset + At(e, f[2].value)
            e2 == offset + At(e, f[3].value)
            cells == << <<v0, e2, e1>>, <<v1, e0, e2>>, <<v2, e1, e0>>, <<e0, e1, e2>> >>
            cur == ed.current_cell
            ed1 == editor_add_cell(ed,  cur,     cells[1])
            ed2 == editor_add_cell(ed1, cur + 1, cells[2])
            ed3 == editor_add_cell(ed2, cur + 2, cells[3])
            ed4 == editor_add_cell(ed3, cur + 3, cells[4])
        IN  Returned([editor |-> [ed4 EXCEPT !.current_cell = cur + 4],
                      found  |-> [i \in 1..3 |-> f[i].value]])

\* The input meshes: one cell with vertices, edges and edge vertices in any
\* order, and the meshes of two and three cells after mesh.init(1) and
\* mesh.init(2, 1), the vertices of the odd cells listed in any order.
RefineMeshes ==
  {OneCellMesh(pv, pf, fl, [v \in 1..3 |-> v - 1]) :
     pv \in Perm3, pf \in Perm3, fl \in [1..3 -> Flips]}
  \cup
  {mesh_init(TopologyMesh(b, pe, <<1, 2, 3>>, [v \in 1..Len(BaseMeshes[b].coords) |-> v - 1]), 2, 1) :
     b \in {2, 3}, pe \in Perm3}

refineOthers ==
  <<shared, btype, boundary, error, reorder_call, tri_call, query, index, csg, sax>>

InitRefine ==
  /\ mesh \in RefineMeshes
  /\ editor = [num_cells |-> 4 * Len(mesh.cells), cells |-> <<>>, current_cell |-> 0]
  /\ topo_call = [op |-> Pending, refined |-> {}]
  /\ shared = Idle /\ btype = Idle /\ boundary = Idle /\ error = Idle
  /\ reorder_call = Idle /\ tri_call = Idle
  /\ query = Idle
  /\ index = Idle /\ csg = Idle /\ sax = Idle

\* refine_cell(cell, editor, current_cell) on a cell not refined yet
RefineCell ==
  /\ \E c \in 0..(Len(mesh.cells) - 1) :
       /\ c \notin topo_call.refined
       /\ LET r == refine_cell(mesh, c, editor)
          IN  IF r.error
              THEN /\ editor' = editor
                   /\ topo_call' = [op |-> "error", refined |-> topo_call.refined \cup {c},
                                    cell |-> c, found |-> <<>>]
              ELSE /\ editor' = r.value.editor
                   /\ topo_call' = [op |-> "refine_cell", refined |-> topo_call.refined \cup {c},
                                    cell |-> c, found |-> r.value.found]
  /\ UNCHANGED <<mesh>>
  /\ UNCHANGED refineOthers

NextRefine == RefineCell

SpecRefine == InitRefine /\ [][NextRefine]_vars

\* The index of the edge of the mesh between vertices a and b.
EdgeBetween(a, b) ==
  CHOOSE k \in 0..(Len(mesh.facets) - 1) : Range(At(mesh.facets, k)) = {a, b}

\* C30: refine_cell adds exactly four cells, at indices current_cell to
\* current_cell + 3, and advances current_cell by 4; the new vertex of the
\* edge with index e is num_vertices + e; child i = 0, 1, 2 consists of
\* vertex i of the cell and the new vertices of the two edges at vertex i,
\* child 3 of the three new vertices; find_edge(i, cell) is the position,
\* in the cell's list of edges, of the one edge without vertex i.
C30_RefineCell ==
  [][topo_call'.op # Pending =>
       LET c   == topo_call'.cell
           v   == At(mesh.cells, c)
           e   == At(mesh.cell_facets, c)
           nv  == Len(mesh.coords)
           n   == Len(editor.cells)
           cur == editor.current_cell
           New(a, b) == nv + EdgeBetween(a, b)
           Child(k)  == editor'.cells[n + 1 + k]
           Next3(i)  == (i + 1) % 3
           Prev3(i)  == (i + 2) % 3
       IN  /\ topo_call'.op = "refine_cell"
           /\ editor'.current_cell = cur + 4
           /\ Len(editor'.cells) = n + 4
           /\ SubSeq(editor'.cells, 1, n) = editor.cells
           /\ \A k \in 0..3 : Child(k).index = cur + k
           /\ \A i \in 0..2 :
                /\ Child(i).vertices[1] = At(v, i)
                /\ Range(Child(i).vertices)
                     = {At(v, i), New(At(v, i), At(v, Next3(i))), New(At(v, i), At(v, Prev3(i)))}
                /\ Range(At(mesh.facets, At(e, topo_call'.found[i + 1])))
                     = {At(v, Next3(i)), At(v, Prev3(i))}
                /\ \A j \in 0..2 : j # topo_call'.found[i + 1]
                     => At(v, i) \in Range(At(mesh.facets, At(e, j)))
           /\ Range(Child(3).vertices)
                = {New(At(v, 0), At(v, 1)), New(At(v, 1), At(v, 2)), New(At(v, 0), At(v, 2))}
           /\ Cardinality(Range(Child(3).vertices)) = 3
  ]_vars

\* A cell was refined after another cell, and one of its edges has an
\* index that is not a local position.
C30_Witness ==
  /\ topo_call.op = "refine_cell"
  /\ editor.current_cell = 8
  /\ Len(editor.cells) = 8
  /\ \E i \in 0..2 : At(At(mesh.cell_facets, topo_call.cell), i) > 2

\* The single cell of a mesh was refined with its edges listed in an order
\* that is not the order of the opposite vertices.
C30_WitnessOneCell ==
  /\ topo_call.op = "refine_cell"
  /\ Len(mesh.cells) = 1
  /\ topo_call.found # <<0, 1, 2>>
  /\ Len(editor.cells) = 4

====
